---- MODULE Spec2Model ----
(***************************************************************************)
(* Job / Render orchestration of the Antariks Clipper backend.             *)
(*                                                                         *)
(* The store (jobs, clips, renders) is the SQLite database of db.py, the   *)
(* files are the artifacts under config.RAW_DIR / TRANSCRIPTS_DIR /        *)
(* RENDERS_DIR, the executor is the ThreadPoolExecutor of services/jobs.py *)
(* and the handlers are the functions of handlers_jobs.py,                 *)
(* handlers_renders.py, handlers_clips.py and the routes of app.py.        *)
(***************************************************************************)
EXTENDS Integers, Sequences, FiniteSets, TLC

\* ---------------------------------------------------------------- bounds
\* number of job ids (uuid4 values) ever handed out
MaxJobs == 2
\* number of clip ids ever handed out
MaxClips == 2
\* number of render ids ever handed out
MaxRenders == 3
\* largest number of highlights one Highlight Engine call returns
MaxHighlights == 1
\* longest pending queue of the executor
MaxQueue == 2
\* longest clip id list of a batch render request
MaxBatch == 2

\* longest candidate list handed to remove_overlaps
MaxCands == 3
\* latest second a candidate of such a list ends at
MaxTime == 3
\* highest score of a candidate of such a list
MaxScore == 2
\* largest top_n of a remove_overlaps call
MaxTopN == 2
\* largest min_gap of a remove_overlaps call
MaxGap == 1
\* longest transcript segment list handed to generate_candidates
MaxSegments == 4
\* request threads of the server that can be inside a handler at once
MaxRequests == 2
\* longest video, in minutes, handed to calculate_dynamic_clip_count
MaxMinutes == 160

\* ------------------------------------------------------ program constants
MAX_WORKERS == 2
MAX_CONCURRENT_RENDERS == 2
MIN_CLIP_DURATION == 15
MAX_CLIP_DURATION == 60
DEFAULT_CLIP_COUNT == 12
\* highlight.py:281: upper limit of the clip count of very long videos
CLIP_COUNT_CAP == 50
\* highlight.py:166: total_duration above which a video is long
LONG_VIDEO == 3600
\* highlight.py:167: step size for long videos
LONG_STEP == 3
\* highlight.py:179: window size ceiling
MAX_WINDOW == 150

JobIds == 1..MaxJobs
ClipIds == 1..MaxClips
RenderIds == 1..MaxRenders
\* a pool with one thread more than configured
WorkersPlusOne == 1..(MAX_WORKERS + 1)

Workers == 1..MAX_WORKERS
RequestThreads == 1..MaxRequests
Urls == {"u1"}

VARIABLES
    jobs,        \* jobs table: job id -> row (domain = ids present)
    clips,       \* clips table: clip id -> row
    renders,     \* renders table: render id -> row
    nextJob,     \* next fresh job id
    nextClip,    \* next fresh clip id
    nextRender,  \* next fresh render id
    clipJob,     \* job_id every clip id was created with (kept after deletion)
    rawFile,     \* job ids whose raw video file exists on disk
    transcript,  \* job id -> "none" | "ok" | "empty": transcript file on disk
    outFile,     \* render ids whose output file exists on disk
    queue,       \* work queue of the executor (FIFO)
    workers,     \* worker thread -> execution it runs
    last,        \* outcome of the most recent handler call
    engine,      \* the Highlight Engine call in progress: inputs and result
    inflight     \* request thread -> the handler call it is in the middle of

vars == <<jobs, clips, renders, nextJob, nextClip, nextRender, clipJob,
          rawFile, transcript, outFile, queue, workers, last, engine,
          inflight>>

store == <<jobs, clips, renders>>
files == <<rawFile, transcript, outFile>>
ids == <<nextJob, nextClip, nextRender, clipJob>>
pool == <<queue, workers>>
calls == <<engine, inflight>>

\* ------------------------------------------------------------ db.py rows
NewJob(source_type, source_url) ==
    [source_type |-> source_type, source_url |-> source_url,
     raw_path |-> "", status |-> "queued", step |-> "", progress |-> 0,
     error |-> ""]

NewClip(job_id) == [job_id |-> job_id]

NewRender(clip_id) ==
    [clip_id |-> clip_id, status |-> "queued", progress |-> 0,
     output_path |-> "", error |-> ""]

\* row with the given columns overwritten
Merge(row, ch) ==
    [f \in DOMAIN row |-> IF f \in DOMAIN ch THEN ch[f] ELSE row[f]]

\* UPDATE jobs SET ... WHERE id = ?   (no row, no effect)
update_job(js, job_id, ch) ==
    IF job_id \in DOMAIN js
    THEN [js EXCEPT ![job_id] = Merge(js[job_id], ch)]
    ELSE js

\* UPDATE renders SET ... WHERE id = ?
update_render(rs, render_id, ch) ==
    IF render_id \in DOMAIN rs
    THEN [rs EXCEPT ![render_id] = Merge(rs[render_id], ch)]
    ELSE rs

Without(f, S) == [k \in (DOMAIN f) \ S |-> f[k]]

get_clips_by_job(cs, job_id) == {c \in DOMAIN cs : cs[c].job_id = job_id}

get_renders_by_clip(rs, clip_id) == {r \in DOMAIN rs : rs[r].clip_id = clip_id}

\* renders joined with clips on clip_id
JobRenders(cs, rs, job_id) ==
    {r \in DOMAIN rs : rs[r].clip_id \in get_clips_by_job(cs, job_id)}

\* DELETE renders of the job's clips, the job's clips, the job
delete_job(js, cs, rs, job_id) ==
    [jobs |-> Without(js, {job_id}),
     clips |-> Without(cs, get_clips_by_job(cs, job_id)),
     renders |-> Without(rs, JobRenders(cs, rs, job_id))]

\* ------------------------------------------------------------- executor
Idle == [kind |-> "idle", id |-> 0, pc |-> "", n |-> 0]

Unit(kind, id) == [kind |-> kind, id |-> id]

\* a pool that drops the unit when something is already waiting
submit_job_lossy(q, job_id) ==
    IF q = <<>> THEN Append(q, Unit("job", job_id)) ELSE q

submit_job(q, job_id) == Append(q, Unit("job", job_id))

submit_render(q, render_id) == Append(q, Unit("render", render_id))

\* what a handler call returned: ok, or an error whose detail is the text
\* the message carries
Result(op, id, ok) == [op |-> op, id |-> id, ok |-> ok, detail |-> ""]

\* HTTPException / JobException raised before anything was written
Rejected(op, id, detail) ==
    [op |-> op, id |-> id, ok |-> FALSE, detail |-> detail]

\* "Job not found", or the message quoting the job's current status
StatusDetail(js, job_id) ==
    IF job_id \in DOMAIN js THEN js[job_id].status ELSE "not_found"

\* no Highlight Engine call in progress
EngineIdle == [op |-> "none"]

\* a request thread that is not inside a handler
NoRequest == [op |-> "none", id |-> 0]

NoRequests == [t \in RequestThreads |-> NoRequest]

Init ==
    /\ jobs = <<>>
    /\ clips = <<>>
    /\ renders = <<>>
    /\ nextJob = 1
    /\ nextClip = 1
    /\ nextRender = 1
    /\ clipJob = <<>>
    /\ rawFile = {}
    /\ transcript = [j \in JobIds |-> "none"]
    /\ outFile = {}
    /\ queue = <<>>
    /\ workers = [w \in Workers |-> Idle]
    /\ last = Result("none", 0, TRUE)
    /\ engine = EngineIdle
    /\ inflight = NoRequests

\* a pool whose free thread takes the newest unit of the queue
DispatchNewest(w) ==
    /\ workers[w] = Idle
    /\ queue # <<>>
    /\ workers' = [workers EXCEPT ![w] =
          [kind |-> queue[Len(queue)].kind, id |-> queue[Len(queue)].id,
           pc |-> "start", n |-> 0]]
    /\ queue' = SubSeq(queue, 1, Len(queue) - 1)
    /\ UNCHANGED <<store, files, ids, last, calls>>

\* a free worker thread takes the oldest unit of the queue
Dispatch(w) ==
    /\ workers[w] = Idle
    /\ queue # <<>>
    /\ workers' = [workers EXCEPT ![w] =
          [kind |-> Head(queue).kind, id |-> Head(queue).id,
           pc |-> "start", n |-> 0]]
    /\ queue' = Tail(queue)
    /\ UNCHANGED <<store, files, ids, last, calls>>

\* ------------------------------------------- services/jobs.py process_job
Running(w, kind, pc) ==
    /\ workers[w].kind = kind
    /\ workers[w].pc = pc

Goto(w, pc) == [workers EXCEPT ![w].pc = pc]

Release(w) == [workers EXCEPT ![w] = Idle]

\* a failure write that leaves the error column alone
JobFailedNoMessage(js, job_id, error_msg) ==
    update_job(js, job_id, [status |-> "failed"])

\* db.update_job(job_id, status='failed', error=error_msg)
JobFailed(js, job_id, error_msg) ==
    update_job(js, job_id, [status |-> "failed", error |-> error_msg])

\* lines 74-145: get_job, status='processing', start of step 1
PJ_Begin(w) ==
    /\ Running(w, "job", "start")
    /\ LET job_id == workers[w].id
           js1 == update_job(jobs, job_id,
                     [status |-> "processing", step |-> "acquire",
                      progress |-> 10])
       IN IF job_id \notin DOMAIN jobs
          THEN /\ workers' = Release(w)
               /\ jobs' = jobs
          ELSE IF jobs[job_id].source_type = "youtube"
          THEN /\ jobs' = js1
               /\ workers' = IF job_id \in rawFile
                             THEN Goto(w, "acquired")
                             ELSE Goto(w, "download")
          ELSE IF jobs[job_id].raw_path = "" \/ job_id \notin rawFile
          THEN /\ jobs' = JobFailed(js1, job_id, "upload_not_found")
               /\ workers' = Release(w)
          ELSE /\ jobs' = js1
               /\ workers' = Goto(w, "acquired")
    /\ UNCHANGED <<clips, renders, files, ids, queue, last, calls>>

\* lines 97-100: progress callback called by the Downloader
PJ_DownloadProgress(w) ==
    /\ Running(w, "job", "download")
    /\ jobs' = update_job(jobs, workers[w].id,
                  [progress |-> 20, step |-> "download"])
    /\ UNCHANGED <<clips, renders, files, ids, pool, last, calls>>

\* lines 111-134: download_youtube returns (success, error_message)
PJ_DownloadReturn(w, success) ==
    /\ Running(w, "job", "download")
    /\ LET job_id == workers[w].id
       IN IF success
          THEN /\ rawFile' = rawFile \cup {job_id}
               /\ jobs' = jobs
               /\ workers' = Goto(w, "acquired")
          ELSE /\ rawFile' = rawFile
               /\ jobs' = JobFailed(jobs, job_id, "download_failed")
               /\ workers' = Release(w)
    /\ UNCHANGED <<clips, renders, transcript, outFile, ids, queue, last, calls>>

\* step 2 without the transcript_path.exists() test
PJ_AcquiredAlwaysTranscribes(w) ==
    /\ Running(w, "job", "acquired")
    /\ jobs' = update_job(update_job(jobs, workers[w].id,
                               [raw_path |-> "raw", progress |-> 30]),
                  workers[w].id, [step |-> "transcribe", progress |-> 40])
    /\ workers' = Goto(w, "transcribe")
    /\ UNCHANGED <<clips, renders, files, ids, queue, last, calls>>

\* lines 147-162: end of step 1, start of step 2
PJ_Acquired(w) ==
    /\ Running(w, "job", "acquired")
    /\ LET job_id == workers[w].id
           js1 == update_job(jobs, job_id,
                     [raw_path |-> "raw", progress |-> 30])
       IN /\ jobs' = update_job(js1, job_id,
                        [step |-> "transcribe", progress |-> 40])
          /\ workers' = IF transcript[job_id] # "none"
                        THEN Goto(w, "transcribed")
                        ELSE Goto(w, "transcribe")
    /\ UNCHANGED <<clips, renders, files, ids, queue, last, calls>>

\* lines 164-170: transcribe_video returns
PJ_TranscribeReturn(w, res) ==
    /\ Running(w, "job", "transcribe")
    /\ LET job_id == workers[w].id
       IN IF res = "fail"
          THEN /\ transcript' = transcript
               /\ jobs' = JobFailed(jobs, job_id, "transcription_failed")
               /\ workers' = Release(w)
          ELSE /\ transcript' = [transcript EXCEPT ![job_id] = res]
               /\ jobs' = jobs
               /\ workers' = Goto(w, "transcribed")
    /\ UNCHANGED <<clips, renders, rawFile, outFile, ids, queue, last, calls>>

\* step 3 generating again although the job has clips
PJ_TranscribedRegenerates(w) ==
    /\ Running(w, "job", "transcribed")
    /\ LET job_id == workers[w].id
           js1 == update_job(jobs, job_id, [progress |-> 60])
           js2 == update_job(js1, job_id,
                     [step |-> "generate_highlights", progress |-> 70])
       IN IF transcript[job_id] # "ok"
          THEN /\ jobs' = JobFailed(js2, job_id, "no_transcript_data")
               /\ workers' = Release(w)
          ELSE /\ jobs' = js2
               /\ workers' = Goto(w, "highlights")
    /\ UNCHANGED <<clips, renders, files, ids, queue, last, calls>>

\* step 3 entered without looking at the loaded transcript
PJ_TranscribedUnchecked(w) ==
    /\ Running(w, "job", "transcribed")
    /\ jobs' = update_job(update_job(jobs, workers[w].id, [progress |-> 60]),
                  workers[w].id,
                  [step |-> "generate_highlights", progress |-> 70])
    /\ workers' = IF get_clips_by_job(clips, workers[w].id) # {}
                  THEN Goto(w, "finish")
                  ELSE Goto(w, "highlights")
    /\ UNCHANGED <<clips, renders, files, ids, queue, last, calls>>

\* lines 172-197: end of step 2, start of step 3
PJ_Transcribed(w) ==
    /\ Running(w, "job", "transcribed")
    /\ LET job_id == workers[w].id
           js1 == update_job(jobs, job_id, [progress |-> 60])
           js2 == update_job(js1, job_id,
                     [step |-> "generate_highlights", progress |-> 70])
       IN IF get_clips_by_job(clips, job_id) # {}
          THEN /\ jobs' = js2
               /\ workers' = Goto(w, "finish")
          ELSE IF transcript[job_id] # "ok"
          THEN /\ jobs' = JobFailed(js2, job_id, "no_transcript_data")
               /\ workers' = Release(w)
          ELSE /\ jobs' = js2
               /\ workers' = Goto(w, "highlights")
    /\ UNCHANGED <<clips, renders, files, ids, queue, last, calls>>

\* an empty list of highlights taken as a finished step
PJ_HighlightsReturnEmptyOk(w, n) ==
    /\ Running(w, "job", "highlights")
    /\ n <= MaxClips + 1 - nextClip
    /\ LET job_id == workers[w].id
       IN IF n = 0
          THEN /\ jobs' = jobs
               /\ workers' = Goto(w, "finish")
          ELSE /\ jobs' = update_job(jobs, job_id,
                             [step |-> "create_clips", progress |-> 80])
               /\ workers' = [workers EXCEPT ![w].pc = "create_clips",
                                             ![w].n = n]
    /\ UNCHANGED <<clips, renders, files, ids, queue, last, calls>>

\* lines 199-213: generate_highlights returns n highlights
PJ_HighlightsReturn(w, n) ==
    /\ Running(w, "job", "highlights")
    /\ n <= MaxClips + 1 - nextClip
    /\ LET job_id == workers[w].id
       IN IF n = 0
          THEN /\ jobs' = JobFailed(jobs, job_id, "no_highlights")
               /\ workers' = Release(w)
          ELSE /\ jobs' = update_job(jobs, job_id,
                             [step |-> "create_clips", progress |-> 80])
               /\ workers' = [workers EXCEPT ![w].pc = "create_clips",
                                             ![w].n = n]
    /\ UNCHANGED <<clips, renders, files, ids, queue, last, calls>>

\* lines 265-281: an exception inside the try block
PJ_HighlightsRaise(w) ==
    /\ Running(w, "job", "highlights")
    /\ jobs' = JobFailed(jobs, workers[w].id, "unexpected_error")
    /\ workers' = Release(w)
    /\ UNCHANGED <<clips, renders, files, ids, queue, last, calls>>

\* lines 215-244: one iteration of the clip loop
PJ_CreateClip(w) ==
    /\ Running(w, "job", "create_clips")
    /\ nextClip <= MaxClips
    /\ LET job_id == workers[w].id
       IN /\ clips' = (nextClip :> NewClip(job_id)) @@ clips
          /\ clipJob' = (nextClip :> job_id) @@ clipJob
          /\ nextClip' = nextClip + 1
          /\ workers' = IF workers[w].n = 1
                        THEN [workers EXCEPT ![w].pc = "finish", ![w].n = 0]
                        ELSE [workers EXCEPT ![w].n = @ - 1]
    /\ UNCHANGED <<jobs, renders, files, nextJob, nextRender, queue, last, calls>>

\* an execution that ends without writing a final status
PJ_FinishSilent(w) ==
    /\ Running(w, "job", "finish")
    /\ workers' = Release(w)
    /\ UNCHANGED <<jobs, clips, renders, files, ids, queue, last, calls>>

\* line 252: status='ready'
PJ_Finish(w) ==
    /\ Running(w, "job", "finish")
    /\ jobs' = update_job(jobs, workers[w].id,
                  [status |-> "ready", step |-> "preview_ready",
                   progress |-> 100])
    /\ workers' = Release(w)
    /\ UNCHANGED <<clips, renders, files, ids, queue, last, calls>>

process_job(w) ==
    \/ PJ_Begin(w)
    \/ PJ_DownloadProgress(w)
    \/ \E success \in BOOLEAN : PJ_DownloadReturn(w, success)
    \/ PJ_Acquired(w)
    \/ \E res \in {"ok", "empty", "fail"} : PJ_TranscribeReturn(w, res)
    \/ PJ_Transcribed(w)
    \/ \E n \in 0..MaxHighlights : PJ_HighlightsReturn(w, n)
    \/ PJ_HighlightsRaise(w)
    \/ PJ_CreateClip(w)
    \/ PJ_Finish(w)

\* ----------------------------------------- job creation (app.py, handlers)
\* SELECT ... WHERE source_type='youtube' AND source_url=? ORDER BY
\* created_at DESC LIMIT 1: ids are handed out in creation order
check_existing_youtube_job(js, url) ==
    LET S == {j \in DOMAIN js : js[j].source_type = "youtube"
                                /\ js[j].source_url = url}
    IN IF S = {} THEN 0 ELSE CHOOSE j \in S : \A k \in S : k <= j

CanSubmit == Len(queue) < MaxQueue

\* app.py create_job, source_type=youtube
CreateYoutubeJob(url) ==
    /\ nextJob <= MaxJobs
    /\ CanSubmit
    /\ jobs' = (nextJob :> NewJob("youtube", url)) @@ jobs
    /\ queue' = submit_job(queue, nextJob)
    /\ nextJob' = nextJob + 1
    /\ last' = Result("create_job", nextJob, TRUE)
    /\ UNCHANGED calls
    /\ UNCHANGED <<clips, renders, files, nextClip, nextRender, clipJob,
                   workers>>

\* app.py create_job / handle_create_upload_job, source_type=upload
CreateUploadJob ==
    /\ nextJob <= MaxJobs
    /\ CanSubmit
    /\ rawFile' = rawFile \cup {nextJob}
    /\ jobs' = update_job((nextJob :> NewJob("upload", "")) @@ jobs,
                          nextJob, [raw_path |-> "raw"])
    /\ queue' = submit_job(queue, nextJob)
    /\ nextJob' = nextJob + 1
    /\ last' = Result("create_job", nextJob, TRUE)
    /\ UNCHANGED calls
    /\ UNCHANGED <<clips, renders, transcript, outFile, nextClip, nextRender,
                   clipJob, workers>>

\* handlers_jobs.py handle_create_youtube_job
HandleCreateYoutubeJob(url) ==
    IF check_existing_youtube_job(jobs, url) # 0
       THEN /\ last' = Result("handle_create_youtube_job", 0, FALSE)
            /\ UNCHANGED calls
            /\ UNCHANGED <<store, files, ids, pool>>
       ELSE /\ nextJob <= MaxJobs
            /\ CanSubmit
            /\ jobs' = (nextJob :> NewJob("youtube", url)) @@ jobs
            /\ queue' = submit_job(queue, nextJob)
            /\ nextJob' = nextJob + 1
            /\ last' = Result("handle_create_youtube_job", nextJob, TRUE)
            /\ UNCHANGED calls
            /\ UNCHANGED <<clips, renders, files, nextClip, nextRender,
                           clipJob, workers>>

\* utils.py collect_job_files_for_deletion + safe_delete_files: the raw
\* video and transcript named after the job, the outputs of its renders
DeleteJobFiles(job_id) ==
    /\ rawFile' = rawFile \ {job_id}
    /\ transcript' = [transcript EXCEPT ![job_id] = "none"]
    /\ outFile' = outFile \ JobRenders(clips, renders, job_id)

DeleteJobRows(job_id) ==
    LET d == delete_job(jobs, clips, renders, job_id)
    IN /\ jobs' = d.jobs
       /\ clips' = d.clips
       /\ renders' = d.renders

\* --------------------------------------------------- cancel, retry, delete
\* a cancel that does not look at the status
HandleCancelJobAnyStatus(job_id) ==
    IF job_id \notin DOMAIN jobs
    THEN /\ last' = Rejected("cancel_job", job_id, StatusDetail(jobs, job_id))
         /\ UNCHANGED calls
         /\ UNCHANGED <<store, files, ids, pool>>
    ELSE /\ jobs' = update_job(jobs, job_id,
                       [status |-> "cancelled", step |-> "cancelled",
                        error |-> "cancelled_by_user"])
         /\ last' = Result("cancel_job", job_id, TRUE)
         /\ UNCHANGED calls
         /\ UNCHANGED <<clips, renders, files, ids, pool>>

\* handlers_jobs.py handle_cancel_job
HandleCancelJob(job_id) ==
    IF job_id \notin DOMAIN jobs
       \/ jobs[job_id].status \notin {"queued", "processing"}
    THEN /\ last' = Rejected("cancel_job", job_id, StatusDetail(jobs, job_id))
         /\ UNCHANGED calls
         /\ UNCHANGED <<store, files, ids, pool>>
    ELSE /\ jobs' = update_job(jobs, job_id,
                       [status |-> "cancelled", step |-> "cancelled",
                        error |-> "cancelled_by_user"])
         /\ last' = Result("cancel_job", job_id, TRUE)
         /\ UNCHANGED calls
         /\ UNCHANGED <<clips, renders, files, ids, pool>>

\* a retry guard that also lets cancelled jobs through
RetryAnyFinished(status) == status \in {"failed", "ready", "cancelled"}

\* handlers_jobs.py:353, app.py:506
RetryAllowed(status) == status \in {"failed", "ready"}

\* a reset that forgets error=None
RetryKeepsError == [status |-> "queued", progress |-> 0]

\* db.update_job(job_id, status='queued', error=None, progress=0)
RetryReset == [status |-> "queued", error |-> "", progress |-> 0]

\* handlers_jobs.py handle_retry_job, app.py retry_job
retry_job(op, job_id) ==
    IF job_id \notin DOMAIN jobs \/ ~RetryAllowed(jobs[job_id].status)
    THEN /\ last' = Rejected(op, job_id, StatusDetail(jobs, job_id))
         /\ UNCHANGED calls
         /\ UNCHANGED <<store, files, ids, pool>>
    ELSE /\ CanSubmit
         /\ jobs' = update_job(jobs, job_id, RetryReset)
         /\ queue' = submit_job(queue, job_id)
         /\ last' = Result(op, job_id, TRUE)
         /\ UNCHANGED calls
         /\ UNCHANGED <<clips, renders, files, ids, workers>>

HandleRetryJob(job_id) == retry_job("handle_retry_job", job_id)

RetryJobRoute(job_id) == retry_job("retry_job", job_id)

\* retry_job as the request thread runs it: db.get_job and the status
\* test ...
RetryJobRead(t, job_id) ==
    /\ inflight[t] = NoRequest
    /\ IF job_id \notin DOMAIN jobs \/ ~RetryAllowed(jobs[job_id].status)
       THEN /\ last' = Rejected("retry_job", job_id,
                                StatusDetail(jobs, job_id))
            /\ inflight' = inflight
       ELSE /\ last' = last
            /\ inflight' = [inflight EXCEPT ![t] =
                               [op |-> "retry_job", id |-> job_id]]
    /\ UNCHANGED <<store, files, ids, pool, engine>>

\* ... and, in a later step of the thread, db.update_job and submit_job
RetryJobWrite(t) ==
    /\ inflight[t].op = "retry_job"
    /\ CanSubmit
    /\ jobs' = update_job(jobs, inflight[t].id, RetryReset)
    /\ queue' = submit_job(queue, inflight[t].id)
    /\ last' = Result("retry_job", inflight[t].id, TRUE)
    /\ inflight' = [inflight EXCEPT ![t] = NoRequest]
    /\ UNCHANGED <<clips, renders, files, ids, workers, engine>>

\* the route with the deletion guard of handle_delete_job
RouteDeletesFinished(status) == status \in {"ready", "failed", "cancelled"}

\* app.py delete_job: only 'ready'
RouteDeletable(status) == status = "ready"

DeleteJobRoute(job_id) ==
    IF job_id \notin DOMAIN jobs \/ ~RouteDeletable(jobs[job_id].status)
    THEN /\ last' = Rejected("delete_job", job_id, StatusDetail(jobs, job_id))
         /\ UNCHANGED calls
         /\ UNCHANGED <<store, files, ids, pool>>
    ELSE /\ DeleteJobFiles(job_id)
         /\ DeleteJobRows(job_id)
         /\ last' = Result("delete_job", job_id, TRUE)
         /\ UNCHANGED calls
         /\ UNCHANGED <<ids, pool>>

\* handlers_jobs.py handle_delete_job: 'ready', 'failed', 'cancelled'
HandlerDeletable(status) == status \in {"ready", "failed", "cancelled"}

HandleDeleteJob(job_id) ==
    IF job_id \notin DOMAIN jobs \/ ~HandlerDeletable(jobs[job_id].status)
    THEN /\ last' = Rejected("handle_delete_job", job_id,
                           StatusDetail(jobs, job_id))
         /\ UNCHANGED calls
         /\ UNCHANGED <<store, files, ids, pool>>
    ELSE /\ DeleteJobFiles(job_id)
         /\ DeleteJobRows(job_id)
         /\ last' = Result("handle_delete_job", job_id, TRUE)
         /\ UNCHANGED calls
         /\ UNCHANGED <<ids, pool>>

\* handlers_jobs.py handle_cleanup_and_create_youtube_job
HandleCleanupAndCreateYoutubeJob(url) ==
    /\ nextJob <= MaxJobs
    /\ CanSubmit
    /\ LET old == check_existing_youtube_job(jobs, url)
           d == IF old = 0
                THEN [jobs |-> jobs, clips |-> clips, renders |-> renders]
                ELSE delete_job(jobs, clips, renders, old)
       IN /\ IF old = 0
             THEN UNCHANGED files
             ELSE DeleteJobFiles(old)
          /\ jobs' = (nextJob :> NewJob("youtube", url)) @@ d.jobs
          /\ clips' = d.clips
          /\ renders' = d.renders
          /\ queue' = submit_job(queue, nextJob)
          /\ nextJob' = nextJob + 1
          /\ last' = Result("cleanup_and_create", old, TRUE)
          /\ UNCHANGED calls
    /\ UNCHANGED <<nextClip, nextRender, clipJob, workers>>

\* --------------------------------------- services/jobs.py process_render
\* db.py get_render / get_renders_by_job: a 'ready' row whose output file is
\* gone is rewritten to 'failed' by the read
ValidateRender(rs, outF, render_id) ==
    IF /\ render_id \in DOMAIN rs
       /\ rs[render_id].status = "ready"
       /\ rs[render_id].output_path # ""
       /\ render_id \notin outF
    THEN update_render(rs, render_id,
            [status |-> "failed", error |-> "render_file_missing"])
    ELSE rs

\* a failure write that leaves the error column alone
RenderFailedNoMessage(rs, render_id, error_msg) ==
    update_render(rs, render_id, [status |-> "failed"])

RenderFailed(rs, render_id, error_msg) ==
    update_render(rs, render_id, [status |-> "failed", error |-> error_msg])

\* a start of the render step that renders whatever is on disk
PR_BeginAlwaysRenders(w) ==
    /\ Running(w, "render", "start")
    /\ LET render_id == workers[w].id
           rs0 == ValidateRender(renders, outFile, render_id)
           clip_id == rs0[render_id].clip_id
           job_id == clips[clip_id].job_id
           rs1 == update_render(rs0, render_id,
                     [status |-> "processing", progress |-> 10])
       IN IF render_id \notin DOMAIN renders
          THEN /\ renders' = renders
               /\ workers' = Release(w)
          ELSE IF clip_id \notin DOMAIN clips
          THEN /\ renders' = RenderFailed(rs0, render_id, "clip_not_found")
               /\ workers' = Release(w)
          ELSE IF job_id \notin DOMAIN jobs \/ jobs[job_id].raw_path = ""
          THEN /\ renders' = RenderFailed(rs0, render_id, "job_video_not_found")
               /\ workers' = Release(w)
          ELSE IF job_id \notin rawFile
          THEN /\ renders' = RenderFailed(rs0, render_id, "raw_file_not_found")
               /\ workers' = Release(w)
          ELSE /\ renders' = update_render(rs1, render_id, [progress |-> 30])
               /\ workers' = Goto(w, "rendering")
    /\ UNCHANGED <<jobs, clips, files, ids, queue, last, calls>>

\* lines 294-363: reads, precondition checks, status='processing'
PR_Begin(w) ==
    /\ Running(w, "render", "start")
    /\ LET render_id == workers[w].id
           rs0 == ValidateRender(renders, outFile, render_id)
           clip_id == rs0[render_id].clip_id
           job_id == clips[clip_id].job_id
           rs1 == update_render(rs0, render_id,
                     [status |-> "processing", progress |-> 10])
       IN IF render_id \notin DOMAIN renders
          THEN /\ renders' = renders
               /\ workers' = Release(w)
          ELSE IF clip_id \notin DOMAIN clips
          THEN /\ renders' = RenderFailed(rs0, render_id, "clip_not_found")
               /\ workers' = Release(w)
          ELSE IF job_id \notin DOMAIN jobs \/ jobs[job_id].raw_path = ""
          THEN /\ renders' = RenderFailed(rs0, render_id, "job_video_not_found")
               /\ workers' = Release(w)
          ELSE IF job_id \notin rawFile
          THEN /\ renders' = RenderFailed(rs0, render_id, "raw_file_not_found")
               /\ workers' = Release(w)
          ELSE IF render_id \in outFile
          THEN /\ renders' = update_render(rs1, render_id,
                                [status |-> "ready", progress |-> 100,
                                 output_path |-> "out"])
               /\ workers' = Release(w)
          ELSE /\ renders' = update_render(rs1, render_id, [progress |-> 30])
               /\ workers' = Goto(w, "rendering")
    /\ UNCHANGED <<jobs, clips, files, ids, queue, last, calls>>

\* lines 368-401: render_clip returns
PR_RenderReturn(w, res) ==
    /\ Running(w, "render", "rendering")
    /\ LET render_id == workers[w].id
       IN IF res = "ok"
          THEN /\ outFile' = outFile \cup {render_id}
               /\ renders' = update_render(renders, render_id,
                                [status |-> "ready", progress |-> 100,
                                 output_path |-> "out"])
          ELSE /\ outFile' = outFile
               /\ renders' = RenderFailed(renders, render_id,
                                IF res = "fail" THEN "render_failed"
                                ELSE "output_not_found")
    /\ workers' = Release(w)
    /\ UNCHANGED <<jobs, clips, rawFile, transcript, ids, queue, last, calls>>

\* lines 413-429: an exception inside the try block
PR_Raise(w) ==
    /\ Running(w, "render", "rendering")
    /\ renders' = RenderFailed(renders, workers[w].id, "unexpected_error")
    /\ workers' = Release(w)
    /\ UNCHANGED <<jobs, clips, files, ids, queue, last, calls>>

process_render(w) ==
    \/ PR_Begin(w)
    \/ \E res \in {"ok", "fail", "nofile"} : PR_RenderReturn(w, res)
    \/ PR_Raise(w)

\* ------------------------------------- handlers_renders.py, app.py renders
blocked_status == {"queued", "processing"}

active_renders(rs) == {r \in DOMAIN rs : rs[r].status \in blocked_status}

\* handlers_renders.py:52 / :144
LimitReached(rs) == Cardinality(active_renders(rs)) >= MAX_CONCURRENT_RENDERS

\* handlers_renders.py:60 / :152
ClipBusy(rs, clip_id) ==
    \E r \in get_renders_by_clip(rs, clip_id) : rs[r].status \in blocked_status

\* _cleanup_old_renders: unlink the output files of the clip's renders
cleanup_old_renders(rs, outF, clip_id) ==
    outF \ {r \in get_renders_by_clip(rs, clip_id) : rs[r].output_path # ""}

\* db.create_render + submit_render on a state [renders, queue, nextRender]
CreateAndSubmit(st, clip_id) ==
    [renders |-> (st.nextRender :> NewRender(clip_id)) @@ st.renders,
     queue |-> submit_render(st.queue, st.nextRender),
     nextRender |-> st.nextRender + 1,
     outFile |-> st.outFile]

RenderState == [renders |-> renders, queue |-> queue,
                nextRender |-> nextRender, outFile |-> outFile]

Fits(st) == st.nextRender <= MaxRenders + 1 /\ Len(st.queue) <= MaxQueue

Commit(st) ==
    /\ Fits(st)
    /\ renders' = st.renders
    /\ queue' = st.queue
    /\ nextRender' = st.nextRender
    /\ outFile' = st.outFile

\* handlers_renders.py handle_create_render
HandleCreateRender(clip_id) ==
    IF \/ clip_id \notin DOMAIN clips
       \/ LimitReached(renders)
       \/ ClipBusy(renders, clip_id)
    THEN /\ last' = Result("handle_create_render", clip_id, FALSE)
         /\ UNCHANGED calls
         /\ UNCHANGED <<store, files, ids, pool>>
    ELSE /\ Commit(CreateAndSubmit(
                [RenderState EXCEPT !.outFile =
                    cleanup_old_renders(renders, outFile, clip_id)], clip_id))
         /\ last' = Result("handle_create_render", clip_id, TRUE)
         /\ UNCHANGED calls
         /\ UNCHANGED <<jobs, clips, rawFile, transcript, nextJob, nextClip,
                        clipJob, workers>>

\* app.py create_render (POST /api/clips/{clip_id}/render)
CreateRenderRoute(clip_id) ==
    IF clip_id \notin DOMAIN clips
    THEN /\ last' = Result("create_render", clip_id, FALSE)
         /\ UNCHANGED calls
         /\ UNCHANGED <<store, files, ids, pool>>
    ELSE /\ Commit(CreateAndSubmit(RenderState, clip_id))
         /\ last' = Result("create_render", clip_id, TRUE)
         /\ UNCHANGED calls
         /\ UNCHANGED <<jobs, clips, rawFile, transcript, nextJob, nextClip,
                        clipJob, workers>>

\* handlers_renders.py handle_retry_render, app.py retry_render
retry_render(op, render_id) ==
    LET rs0 == ValidateRender(renders, outFile, render_id)
    IN IF render_id \notin DOMAIN renders \/ rs0[render_id].status # "failed"
       THEN /\ last' = Result(op, render_id, FALSE)
            /\ UNCHANGED calls
            /\ UNCHANGED <<store, files, ids, pool>>
       ELSE /\ CanSubmit
            /\ renders' = update_render(rs0, render_id,
                             [status |-> "queued", error |-> "",
                              progress |-> 0])
            /\ queue' = submit_render(queue, render_id)
            /\ last' = Result(op, render_id, TRUE)
            /\ UNCHANGED calls
            /\ UNCHANGED <<jobs, clips, files, ids, workers>>

HandleRetryRender(render_id) == retry_render("handle_retry_render", render_id)

RetryRenderRoute(render_id) == retry_render("retry_render", render_id)

\* handlers_renders.py handle_batch_render: the loop over clip_id_list
RECURSIVE batch_render(_, _, _)
batch_render(st, job_id, clip_id_list) ==
    IF clip_id_list = <<>> THEN st
    ELSE LET clip_id == Head(clip_id_list)
             rest == Tail(clip_id_list)
         IN IF clip_id \notin DOMAIN clips \/ clips[clip_id].job_id # job_id
            THEN batch_render(st, job_id, rest)
            ELSE IF LimitReached(st.renders)
            THEN batch_render(st, job_id, rest)
            ELSE IF ClipBusy(st.renders, clip_id)
            THEN batch_render(st, job_id, rest)
            ELSE batch_render(
                    CreateAndSubmit(
                       [st EXCEPT !.outFile =
                           cleanup_old_renders(st.renders, st.outFile, clip_id)],
                       clip_id),
                    job_id, rest)

HandleBatchRender(job_id, clip_id_list) ==
    IF job_id \notin DOMAIN jobs
    THEN /\ last' = Result("handle_batch_render", job_id, FALSE)
         /\ UNCHANGED calls
         /\ UNCHANGED <<store, files, ids, pool>>
    ELSE /\ Commit(batch_render(RenderState, job_id, clip_id_list))
         /\ last' = Result("handle_batch_render", job_id, TRUE)
         /\ UNCHANGED calls
         /\ UNCHANGED <<jobs, clips, rawFile, transcript, nextJob, nextClip,
                        clipJob, workers>>

\* app.py render_selected_clips: the loop over clip_id_list
RECURSIVE render_selected(_, _, _)
render_selected(st, job_id, clip_id_list) ==
    IF clip_id_list = <<>> THEN st
    ELSE LET clip_id == Head(clip_id_list)
             rest == Tail(clip_id_list)
         IN IF clip_id \notin DOMAIN clips \/ clips[clip_id].job_id # job_id
            THEN render_selected(st, job_id, rest)
            ELSE render_selected(CreateAndSubmit(st, clip_id), job_id, rest)

RenderSelectedRoute(job_id, clip_id_list) ==
    IF job_id \notin DOMAIN jobs
    THEN /\ last' = Result("render_selected", job_id, FALSE)
         /\ UNCHANGED calls
         /\ UNCHANGED <<store, files, ids, pool>>
    ELSE /\ Commit(render_selected(RenderState, job_id, clip_id_list))
         /\ last' = Result("render_selected", job_id, TRUE)
         /\ UNCHANGED calls
         /\ UNCHANGED <<jobs, clips, rawFile, transcript, nextJob, nextClip,
                        clipJob, workers>>

\* app.py get_render (GET /api/renders/{render_id})
GetRenderRoute(render_id) ==
    /\ renders' = ValidateRender(renders, outFile, render_id)
    /\ last' = Result("get_render", render_id, render_id \in DOMAIN renders)
    /\ UNCHANGED calls
    /\ UNCHANGED <<jobs, clips, files, ids, pool>>

\* clip id lists a batch request names
ClipIdLists == UNION {[1..n -> ClipIds] : n \in 1..MaxBatch}

\* --------------------------------------- handlers_clips.py, app.py clips
\* handle_create_clips / app.py create_clips, one clip in the payload
CreateClips(job_id) ==
    IF job_id \notin DOMAIN jobs
    THEN /\ last' = Result("create_clips", job_id, FALSE)
         /\ UNCHANGED calls
         /\ UNCHANGED <<store, files, ids, pool>>
    ELSE /\ nextClip <= MaxClips
         /\ clips' = (nextClip :> NewClip(job_id)) @@ clips
         /\ clipJob' = (nextClip :> job_id) @@ clipJob
         /\ nextClip' = nextClip + 1
         /\ last' = Result("create_clips", job_id, TRUE)
         /\ UNCHANGED calls
         /\ UNCHANGED <<jobs, renders, files, nextJob, nextRender, pool>>

\* handle_delete_clip / app.py delete_clip_endpoint
DeleteClip(clip_id) ==
    IF clip_id \notin DOMAIN clips
    THEN /\ last' = Result("delete_clip", clip_id, FALSE)
         /\ UNCHANGED calls
         /\ UNCHANGED <<store, files, ids, pool>>
    ELSE /\ outFile' = outFile \ {r \in get_renders_by_clip(renders, clip_id) :
                                     renders[r].output_path # ""}
         /\ renders' = Without(renders, get_renders_by_clip(renders, clip_id))
         /\ clips' = Without(clips, {clip_id})
         /\ last' = Result("delete_clip", clip_id, TRUE)
         /\ UNCHANGED calls
         /\ UNCHANGED <<jobs, rawFile, transcript, ids, pool>>

\* db.create_clip for each of n highlights, ids nc, nc+1, ...
RECURSIVE create_highlight_clips(_, _, _, _)
create_highlight_clips(cs, nc, job_id, n) ==
    IF n = 0 THEN cs
    ELSE create_highlight_clips((nc :> NewClip(job_id)) @@ cs, nc + 1,
                                job_id, n - 1)

\* handle_regenerate_highlights / app.py regenerate_highlights; the
\* Highlight Engine returns n highlights
RegenerateHighlights(job_id, n) ==
    IF \/ job_id \notin DOMAIN jobs
       \/ jobs[job_id].status # "ready"
       \/ transcript[job_id] # "ok"
    THEN /\ last' = Result("regenerate_highlights", job_id, FALSE)
         /\ UNCHANGED calls
         /\ UNCHANGED <<store, files, ids, pool>>
    ELSE LET kept == Without(clips, get_clips_by_job(clips, job_id))
         IN IF n = 0 \/ jobs[job_id].raw_path = "" \/ job_id \notin rawFile
            THEN /\ clips' = kept
                 /\ last' = Result("regenerate_highlights", job_id, FALSE)
                 /\ UNCHANGED calls
                 /\ UNCHANGED <<jobs, renders, files, ids, pool>>
            ELSE /\ nextClip + n <= MaxClips + 1
                 /\ clips' = create_highlight_clips(kept, nextClip, job_id, n)
                 /\ clipJob' = [c \in nextClip..(nextClip + n - 1) |-> job_id]
                                  @@ clipJob
                 /\ nextClip' = nextClip + n
                 /\ last' = Result("regenerate_highlights", job_id, TRUE)
                 /\ UNCHANGED calls
                 /\ UNCHANGED <<jobs, renders, files, nextJob, nextRender,
                                pool>>

\* ------------------------------------------------------------------ Next
JobRequests ==
    \/ \E url \in Urls : CreateYoutubeJob(url)
    \/ CreateUploadJob
    \/ \E url \in Urls : HandleCreateYoutubeJob(url)
    \/ \E url \in Urls : HandleCleanupAndCreateYoutubeJob(url)
    \/ \E job_id \in JobIds : HandleCancelJob(job_id)
    \/ \E job_id \in JobIds : HandleRetryJob(job_id)
    \/ \E job_id \in JobIds : RetryJobRoute(job_id)
    \/ \E job_id \in JobIds : DeleteJobRoute(job_id)
    \/ \E job_id \in JobIds : HandleDeleteJob(job_id)

ClipRequests ==
    \/ \E job_id \in JobIds : CreateClips(job_id)
    \/ \E clip_id \in ClipIds : DeleteClip(clip_id)
    \/ \E job_id \in JobIds, n \in 0..MaxHighlights :
          RegenerateHighlights(job_id, n)

RenderRequests ==
    \/ \E clip_id \in ClipIds : HandleCreateRender(clip_id)
    \/ \E clip_id \in ClipIds : CreateRenderRoute(clip_id)
    \/ \E render_id \in RenderIds : HandleRetryRender(render_id)
    \/ \E render_id \in RenderIds : RetryRenderRoute(render_id)
    \/ \E job_id \in JobIds, l \in ClipIdLists : HandleBatchRender(job_id, l)
    \/ \E job_id \in JobIds, l \in ClipIdLists : RenderSelectedRoute(job_id, l)
    \/ \E render_id \in RenderIds : GetRenderRoute(render_id)

\* job pipeline: creation, execution, cancel, retry, deletion
NextJobs ==
    \/ \E w \in Workers : Dispatch(w)
    \/ \E w \in Workers : process_job(w)
    \/ JobRequests

SpecJobs == Init /\ [][NextJobs]_vars

\* two jobs whose pipelines have finished, one clip each
ReadyJob(source_type, source_url) ==
    Merge(NewJob(source_type, source_url),
          [raw_path |-> "raw", status |-> "ready", step |-> "preview_ready",
           progress |-> 100])

InitReady ==
    /\ jobs = (1 :> ReadyJob("youtube", "u1")) @@ (2 :> ReadyJob("upload", ""))
    /\ clips = (1 :> NewClip(1)) @@ (2 :> NewClip(2))
    /\ renders = <<>>
    /\ nextJob = 3
    /\ nextClip = 3
    /\ nextRender = 1
    /\ clipJob = (1 :> 1) @@ (2 :> 2)
    /\ rawFile = {1, 2}
    /\ transcript = [j \in JobIds |-> IF j \in {1, 2} THEN "ok" ELSE "none"]
    /\ outFile = {}
    /\ queue = <<>>
    /\ workers = [w \in Workers |-> Idle]
    /\ last = Result("none", 0, TRUE)
    /\ engine = EngineIdle
    /\ inflight = NoRequests

\* a job whose download failed
FailedJob(source_type, source_url) ==
    Merge(NewJob(source_type, source_url),
          [status |-> "failed", step |-> "acquire", progress |-> 10,
           error |-> "download_failed"])

\* job 1 finished with one clip, job 2 failed in step 1
InitStore ==
    /\ jobs = (1 :> ReadyJob("upload", "")) @@ (2 :> FailedJob("youtube", "u1"))
    /\ clips = (1 :> NewClip(1))
    /\ renders = <<>>
    /\ nextJob = 3
    /\ nextClip = 2
    /\ nextRender = 1
    /\ clipJob = (1 :> 1)
    /\ rawFile = {1}
    /\ transcript = [j \in JobIds |-> IF j = 1 THEN "ok" ELSE "none"]
    /\ outFile = {}
    /\ queue = <<>>
    /\ workers = [w \in Workers |-> Idle]
    /\ last = Result("none", 0, TRUE)
    /\ engine = EngineIdle
    /\ inflight = NoRequests

\* the store after the pipelines: clips, renders, job deletion
NextStore ==
    \/ \E w \in Workers : Dispatch(w)
    \/ \E w \in Workers : process_render(w)
    \/ \E clip_id \in ClipIds : HandleCreateRender(clip_id)
    \/ ClipRequests
    \/ \E job_id \in JobIds : DeleteJobRoute(job_id)
    \/ \E job_id \in JobIds : HandleDeleteJob(job_id)

SpecStore == InitStore /\ [][NextStore]_vars

\* every way of submitting a render, and its execution
NextSubmit ==
    \/ \E w \in Workers : Dispatch(w)
    \/ \E w \in Workers : process_render(w)
    \/ \E clip_id \in ClipIds : HandleCreateRender(clip_id)
    \/ \E clip_id \in ClipIds : CreateRenderRoute(clip_id)
    \/ \E job_id \in JobIds, l \in ClipIdLists : HandleBatchRender(job_id, l)
    \/ \E job_id \in JobIds, l \in ClipIdLists : RenderSelectedRoute(job_id, l)

SpecSubmit == InitReady /\ [][NextSubmit]_vars

\* render submission, retry and execution of handlers_renders.py
NextRenders ==
    \/ \E w \in Workers : Dispatch(w)
    \/ \E w \in Workers : process_render(w)
    \/ \E clip_id \in ClipIds : HandleCreateRender(clip_id)
    \/ \E render_id \in RenderIds : HandleRetryRender(render_id)
    \/ \E job_id \in JobIds, l \in ClipIdLists : HandleBatchRender(job_id, l)

SpecRenders == InitReady /\ [][NextRenders]_vars

\* the life of a render: submission, execution, reads and retry
NextRenderLife ==
    \/ \E w \in Workers : Dispatch(w)
    \/ \E w \in Workers : process_render(w)
    \/ \E clip_id \in ClipIds : HandleCreateRender(clip_id)
    \/ \E clip_id \in ClipIds : CreateRenderRoute(clip_id)
    \/ \E render_id \in RenderIds : HandleRetryRender(render_id)
    \/ \E render_id \in RenderIds : RetryRenderRoute(render_id)
    \/ \E render_id \in RenderIds : GetRenderRoute(render_id)

SpecRenderLife == InitReady /\ [][NextRenderLife]_vars

\* render_clip returns False after ffmpeg has written to output_path
\* (burn_subtitles, crop_and_scale_center or the mux fail part-way): the
\* render is failed and a file is left at its canonical path
PR_RenderReturnPartial(w) ==
    /\ Running(w, "render", "rendering")
    /\ outFile' = outFile \cup {workers[w].id}
    /\ renders' = RenderFailed(renders, workers[w].id, "render_failed")
    /\ workers' = Release(w)
    /\ UNCHANGED <<jobs, clips, rawFile, transcript, ids, queue, last, calls>>

\* the life of renders with outputs left behind by failed runs
NextRenderResume ==
    \/ NextRenderLife
    \/ \E w \in Workers : PR_RenderReturnPartial(w)

SpecRenderResume == InitReady /\ [][NextRenderResume]_vars

\* the shared pool: job retries and render submissions compete for the
\* worker threads
NextPool ==
    \/ \E w \in Workers : Dispatch(w)
    \/ \E w \in Workers : process_job(w)
    \/ \E w \in Workers : process_render(w)
    \/ \E job_id \in JobIds : RetryJobRoute(job_id)
    \/ \E clip_id \in ClipIds : CreateRenderRoute(clip_id)

SpecPool == InitStore /\ [][NextPool]_vars

\* an execution step other than a progress callback
JobAdvance(w) ==
    \/ PJ_Begin(w)
    \/ \E success \in BOOLEAN : PJ_DownloadReturn(w, success)
    \/ PJ_Acquired(w)
    \/ \E res \in {"ok", "empty", "fail"} : PJ_TranscribeReturn(w, res)
    \/ PJ_Transcribed(w)
    \/ \E n \in 0..MaxHighlights : PJ_HighlightsReturn(w, n)
    \/ PJ_HighlightsRaise(w)
    \/ PJ_CreateClip(w)
    \/ PJ_Finish(w)

\* fair scheduling: an idle thread blocked on the queue wakes up when a
\* unit is put; terminating executions: a running orchestrator takes its
\* next step
FairPool ==
    \A w \in Workers :
        /\ WF_vars(Dispatch(w))
        /\ WF_vars(JobAdvance(w))
        /\ WF_vars(process_render(w))

\* the life of jobs: creation with submission, execution, cancel, retry
NextJobLife ==
    \/ \E w \in Workers : Dispatch(w)
    \/ \E w \in Workers : process_job(w)
    \/ \E url \in Urls : CreateYoutubeJob(url)
    \/ \E job_id \in JobIds : HandleCancelJob(job_id)
    \/ \E job_id \in JobIds : HandleRetryJob(job_id)

\* ... under fair scheduling of the pool, every collaborator call returning;
\* the requests are under no fairness: they may stop at any point
SpecJobLifeFair == Init /\ [][NextJobLife]_vars /\ FairPool

\* a render whose output file was written
ReadyRender(clip_id) ==
    Merge(NewRender(clip_id),
          [status |-> "ready", progress |-> 100, output_path |-> "out"])

\* job 1 finished with one clip rendered twice, job 2 failed in step 1
InitPool ==
    /\ jobs = (1 :> ReadyJob("upload", "")) @@ (2 :> FailedJob("youtube", "u1"))
    /\ clips = (1 :> NewClip(1))
    /\ renders = (1 :> ReadyRender(1)) @@ (2 :> ReadyRender(1))
    /\ nextJob = 3
    /\ nextClip = 2
    /\ nextRender = 3
    /\ clipJob = (1 :> 1)
    /\ rawFile = {1}
    /\ transcript = [j \in JobIds |-> IF j = 1 THEN "ok" ELSE "none"]
    /\ outFile = {1, 2}
    /\ queue = <<>>
    /\ workers = [w \in Workers |-> Idle]
    /\ last = Result("none", 0, TRUE)
    /\ engine = EngineIdle
    /\ inflight = NoRequests

SpecPoolFair == InitPool /\ [][NextPool]_vars /\ FairPool

\* executions of a finished job and of a failed job, resumed by retry
SpecResume == InitPool /\ [][NextPool]_vars

\* retry requests served by concurrent request threads, and the executions
NextRetryRace ==
    \/ \E w \in Workers : Dispatch(w)
    \/ \E w \in Workers : process_job(w)
    \/ \E t \in RequestThreads, job_id \in JobIds : RetryJobRead(t, job_id)
    \/ \E t \in RequestThreads : RetryJobWrite(t)

SpecRetryRace == InitPool /\ [][NextRetryRace]_vars

\* ------------------------------------- services/highlight.py remove_overlaps
\* candidate clips: start < end, a score
Candidates ==
    {c \in [start : 0..MaxTime, end : 0..MaxTime, score : 1..MaxScore] :
        c.start < c.end}

CandidateLists == UNION {[1..n -> Candidates] : n \in 0..MaxCands}

\* sorted(candidates, key=score, reverse=True): stable, equal scores keep
\* their original order
RECURSIVE sort_by_score(_)
sort_by_score(seq) ==
    IF seq = <<>> THEN <<>>
    ELSE LET x == seq[Len(seq)]
             front == sort_by_score(SubSeq(seq, 1, Len(seq) - 1))
             k == Cardinality({i \in 1..Len(front) : front[i].score >= x.score})
         IN SubSeq(front, 1, k) \o <<x>> \o SubSeq(front, k + 1, Len(front))

\* sorted(selected, key=start): stable
RECURSIVE sort_by_start(_)
sort_by_start(seq) ==
    IF seq = <<>> THEN <<>>
    ELSE LET x == seq[Len(seq)]
             front == sort_by_start(SubSeq(seq, 1, Len(seq) - 1))
             k == Cardinality({i \in 1..Len(front) : front[i].start <= x.start})
         IN SubSeq(front, 1, k) \o <<x>> \o SubSeq(front, k + 1, Len(front))

\* highlight.py:241-242
Overlaps(candidate, sel, min_gap) ==
    ~(candidate.end <= sel.start - min_gap \/ candidate.start >= sel.end)

\* the loop of highlight.py:233-249 over the rest of sorted_candidates
RECURSIVE select(_, _, _, _)
select(sorted_candidates, selected, top_n, min_gap) ==
    IF sorted_candidates = <<>> THEN selected
    ELSE LET candidate == Head(sorted_candidates)
             rest == Tail(sorted_candidates)
         IN IF \E i \in 1..Len(selected) :
                  Overlaps(candidate, selected[i], min_gap)
            THEN select(rest, selected, top_n, min_gap)
            ELSE IF Len(selected) + 1 >= top_n
            THEN Append(selected, candidate)
            ELSE select(rest, Append(selected, candidate), top_n, min_gap)

remove_overlaps(candidates, top_n, min_gap) ==
    sort_by_start(select(sort_by_score(candidates), <<>>, top_n, min_gap))

\* a caller hands a candidate list to remove_overlaps
CallRemoveOverlaps ==
    /\ engine = EngineIdle
    /\ \E candidates \in CandidateLists, top_n \in 0..MaxTopN,
          min_gap \in 0..MaxGap :
          engine' = [op |-> "remove_overlaps", candidates |-> candidates,
                     top_n |-> top_n, min_gap |-> min_gap]
    /\ UNCHANGED <<store, files, ids, pool, last, inflight>>

\* remove_overlaps returns
ReturnRemoveOverlaps ==
    /\ engine.op = "remove_overlaps"
    /\ engine' = [op |-> "overlaps_removed", candidates |-> engine.candidates,
                  top_n |-> engine.top_n, min_gap |-> engine.min_gap,
                  result |-> remove_overlaps(engine.candidates, engine.top_n,
                                             engine.min_gap)]
    /\ UNCHANGED <<store, files, ids, pool, last, inflight>>

NextOverlaps ==
    \/ CallRemoveOverlaps
    \/ ReturnRemoveOverlaps

SpecOverlaps == Init /\ [][NextOverlaps]_vars

\* --------------------------------- services/highlight.py generate_candidates
\* seconds at which the segments of a transcript start and end
SegTimes == {0, 10, 20, 30, 60, 70, 80}

\* a transcript segment ends after it starts
Segments == {s \in [start : SegTimes, end : SegTimes] : s.start < s.end}

\* ordered segment lists: no segment starts before the one in front of it
\* (segments may overlap or leave gaps)
SegmentLists ==
    UNION {{l \in [1..n -> Segments] :
               \A k \in 1..(n - 1) : l[k].start <= l[k + 1].start}
           : n \in 0..MaxSegments}

\* transcript['duration'] values: a short and a long video
Durations == {80, 3601}

NeverTooLong(duration) == FALSE

\* highlight.py:189
TooLong(duration) == duration > MAX_CLIP_DURATION

\* highlight.py:187
TooShort(duration) == duration < MIN_CLIP_DURATION

Min(a, b) == IF a <= b THEN a ELSE b

\* highlight.py:181-210: the for loop over j (0-based i, j as in the code)
RECURSIVE window(_, _, _, _)
window(segments, i, j, max_j) ==
    IF j >= max_j THEN <<>>
    ELSE LET start == segments[i + 1].start
             end == segments[j].end
             duration == end - start
         IN IF TooShort(duration) THEN window(segments, i, j + 1, max_j)
            ELSE IF TooLong(duration) THEN <<>>
            ELSE <<[start |-> start, end |-> end, duration |-> duration,
                    segment_count |-> j - i]>>
                 \o window(segments, i, j + 1, max_j)

\* highlight.py:172-212: the while loop over i
RECURSIVE windows_from(_, _, _)
windows_from(segments, i, step_size) ==
    IF i >= Len(segments) THEN <<>>
    ELSE window(segments, i, i + 1, Min(i + MAX_WINDOW, Len(segments) + 1))
         \o windows_from(segments, i + step_size, step_size)

\* a start index that always advances by one
step_size_one(total_duration, adaptive_step) == 1

step_size(total_duration, adaptive_step) ==
    IF total_duration > LONG_VIDEO /\ adaptive_step THEN LONG_STEP ELSE 1

\* the candidates without their score, text and metadata
generate_candidates(segments, total_duration, adaptive_step) ==
    windows_from(segments, 0, step_size(total_duration, adaptive_step))

CallGenerateCandidates ==
    /\ engine = EngineIdle
    /\ \E segments \in SegmentLists, total_duration \in Durations,
          adaptive_step \in BOOLEAN :
          engine' = [op |-> "generate_candidates", segments |-> segments,
                     total_duration |-> total_duration,
                     adaptive_step |-> adaptive_step]
    /\ UNCHANGED <<store, files, ids, pool, last, inflight>>

ReturnGenerateCandidates ==
    /\ engine.op = "generate_candidates"
    /\ engine' = [op |-> "candidates_generated", segments |-> engine.segments,
                  total_duration |-> engine.total_duration,
                  adaptive_step |-> engine.adaptive_step,
                  result |-> generate_candidates(engine.segments,
                                engine.total_duration, engine.adaptive_step)]
    /\ UNCHANGED <<store, files, ids, pool, last, inflight>>

NextCandidates ==
    \/ CallGenerateCandidates
    \/ ReturnGenerateCandidates

SpecCandidates == Init /\ [][NextCandidates]_vars

\* transcripts with more segments than one window may span: n copies of one
\* 20 second segment
LongSegmentLists ==
    {[k \in 1..n |-> [start |-> 0, end |-> 20]] :
        n \in {MAX_WINDOW - 1, MAX_WINDOW, MAX_WINDOW + 1}}

CallGenerateCandidatesLong ==
    /\ engine = EngineIdle
    /\ \E segments \in LongSegmentLists, total_duration \in Durations,
          adaptive_step \in BOOLEAN :
          engine' = [op |-> "generate_candidates", segments |-> segments,
                     total_duration |-> total_duration,
                     adaptive_step |-> adaptive_step]
    /\ UNCHANGED <<store, files, ids, pool, last, inflight>>

NextWindows ==
    \/ CallGenerateCandidates
    \/ CallGenerateCandidatesLong
    \/ ReturnGenerateCandidates

SpecWindows == Init /\ [][NextWindows]_vars

\* ------------------------ services/highlight.py calculate_dynamic_clip_count
Max(a, b) == IF a >= b THEN a ELSE b

\* total_duration in seconds; duration_minutes = total_duration / 60 is
\* compared in seconds, int(duration_minutes / 3) is total_duration \div 180
calculate_dynamic_clip_count(total_duration, base_count) ==
    IF total_duration <= 10 * 60 THEN Max(base_count, 5)
    ELSE IF total_duration <= 30 * 60 THEN Max(base_count, 12)
    ELSE IF total_duration <= 60 * 60 THEN Max(base_count, 20)
    ELSE IF total_duration <= 120 * 60 THEN Max(base_count, 30)
    ELSE Min(total_duration \div 180, CLIP_COUNT_CAP)

\* video durations in seconds: every full minute and the second after it
VideoDurations == {60 * m + e : m \in 0..MaxMinutes, e \in {0, 1}}

\* values of the DEFAULT_CLIP_COUNT setting: the default and two larger ones
ClipCountSettings == {DEFAULT_CLIP_COUNT, 45, 60}

\* generate_highlights asks for the clip count of a video
CallClipCount ==
    /\ engine = EngineIdle
    /\ \E total_duration \in VideoDurations, base_count \in ClipCountSettings :
          engine' = [op |-> "clip_count", total_duration |-> total_duration,
                     base_count |-> base_count]
    /\ UNCHANGED <<store, files, ids, pool, last, inflight>>

ReturnClipCount ==
    /\ engine.op = "clip_count"
    /\ engine' = [op |-> "clip_count_returned",
                  total_duration |-> engine.total_duration,
                  base_count |-> engine.base_count,
                  result |-> calculate_dynamic_clip_count(
                                engine.total_duration, engine.base_count)]
    /\ UNCHANGED <<store, files, ids, pool, last, inflight>>

NextClipCount ==
    \/ CallClipCount
    \/ ReturnClipCount

SpecClipCount == Init /\ [][NextClipCount]_vars

\* ------------------------- handle_create_render on two request threads
\* clips of the submission race: one holds the active render, two are free
MaxRaceClips == 3

RaceClips == 1..MaxRaceClips

\* handle_create_render up to the last check: db.get_clip, db.list_renders
\* with the limit test, db.get_renders_by_clip with the busy test ...
CreateRenderRead(t, clip_id) ==
    /\ inflight[t] = NoRequest
    /\ IF \/ clip_id \notin DOMAIN clips
          \/ LimitReached(renders)
          \/ ClipBusy(renders, clip_id)
       THEN /\ last' = Result("handle_create_render", clip_id, FALSE)
            /\ inflight' = inflight
       ELSE /\ last' = last
            /\ inflight' = [inflight EXCEPT ![t] =
                               [op |-> "create_render", id |-> clip_id]]
    /\ UNCHANGED <<store, files, ids, pool, engine>>

\* ... and, in a later step of the thread, _cleanup_old_renders,
\* db.create_render and submit_render
CreateRenderWrite(t) ==
    /\ inflight[t].op = "create_render"
    /\ Commit(CreateAndSubmit(
           [RenderState EXCEPT !.outFile =
               cleanup_old_renders(renders, outFile, inflight[t].id)],
           inflight[t].id))
    /\ last' = Result("handle_create_render", inflight[t].id, TRUE)
    /\ inflight' = [inflight EXCEPT ![t] = NoRequest]
    /\ UNCHANGED <<jobs, clips, rawFile, transcript, nextJob, nextClip,
                   clipJob, workers, engine>>

\* one finished job with three clips and no render yet
InitRenderRace ==
    /\ jobs = (1 :> ReadyJob("upload", ""))
    /\ clips = [c \in RaceClips |-> NewClip(1)]
    /\ renders = <<>>
    /\ nextJob = 2
    /\ nextClip = MaxRaceClips + 1
    /\ nextRender = 1
    /\ clipJob = [c \in RaceClips |-> 1]
    /\ rawFile = {1}
    /\ transcript = [j \in JobIds |-> IF j = 1 THEN "ok" ELSE "none"]
    /\ outFile = {}
    /\ queue = <<>>
    /\ workers = [w \in Workers |-> Idle]
    /\ last = Result("none", 0, TRUE)
    /\ engine = EngineIdle
    /\ inflight = NoRequests

NextRenderRace ==
    \/ \E w \in Workers : Dispatch(w)
    \/ \E w \in Workers : process_render(w)
    \/ \E t \in RequestThreads, clip_id \in RaceClips :
          CreateRenderRead(t, clip_id)
    \/ \E t \in RequestThreads : CreateRenderWrite(t)

SpecRenderRace == InitRenderRace /\ [][NextRenderRace]_vars

\* ------------------------------------------- clip rows with their range
\* seconds a request payload or a highlight can name
ClipSeconds == {0, 10, 20, 30, 75, 90}

\* db.create_clip(clip_id, job_id, start_sec, end_sec, ...)
RangedClip(job_id, start_sec, end_sec) ==
    [job_id |-> job_id, start_sec |-> start_sec, end_sec |-> end_sec]

\* handle_create_clips, app.py create_clips, handle_automate: start_sec and
\* end_sec of the payload are stored as they come
CreatePayloadClip(job_id, start_sec, end_sec) ==
    IF job_id \notin DOMAIN jobs
    THEN /\ last' = Result("create_clips", job_id, FALSE)
         /\ UNCHANGED calls
         /\ UNCHANGED <<store, files, ids, pool>>
    ELSE /\ nextClip <= MaxClips
         /\ clips' = (nextClip :> RangedClip(job_id, start_sec, end_sec))
                        @@ clips
         /\ clipJob' = (nextClip :> job_id) @@ clipJob
         /\ nextClip' = nextClip + 1
         /\ last' = Result("create_clips", job_id, TRUE)
         /\ UNCHANGED calls
         /\ UNCHANGED <<jobs, renders, files, nextJob, nextRender, pool>>

\* highlights as generate_highlights returns them: candidates of
\* generate_candidates, whose duration is within the limits
HighlightRanges ==
    {r \in [start : ClipSeconds, end : ClipSeconds] :
        ~TooShort(r.end - r.start) /\ ~TooLong(r.end - r.start)}

\* process_job clip loop, handle_regenerate_highlights: start_sec=hl['start'],
\* end_sec=hl['end']
CreateHighlightClip(job_id, hl) ==
    /\ job_id \in DOMAIN jobs
    /\ nextClip <= MaxClips
    /\ clips' = (nextClip :> RangedClip(job_id, hl.start, hl.end)) @@ clips
    /\ clipJob' = (nextClip :> job_id) @@ clipJob
    /\ nextClip' = nextClip + 1
    /\ UNCHANGED <<jobs, renders, files, nextJob, nextRender, pool, last, calls>>

\* one finished job whose clips have all been deleted
InitClipRanges ==
    /\ jobs = (1 :> ReadyJob("upload", ""))
    /\ clips = <<>>
    /\ renders = <<>>
    /\ nextJob = 2
    /\ nextClip = 1
    /\ nextRender = 1
    /\ clipJob = <<>>
    /\ rawFile = {1}
    /\ transcript = [j \in JobIds |-> IF j = 1 THEN "ok" ELSE "none"]
    /\ outFile = {}
    /\ queue = <<>>
    /\ workers = [w \in Workers |-> Idle]
    /\ last = Result("none", 0, TRUE)
    /\ engine = EngineIdle
    /\ inflight = NoRequests

NextClipRanges ==
    \/ \E job_id \in JobIds, start_sec \in ClipSeconds, end_sec \in ClipSeconds :
          CreatePayloadClip(job_id, start_sec, end_sec)
    \/ \E job_id \in JobIds, hl \in HighlightRanges :
          CreateHighlightClip(job_id, hl)

SpecClipRanges == InitClipRanges /\ [][NextClipRanges]_vars

\* ============================================================ properties
\* the status changes of a job that section 4.1 allows
JobStatusGraph ==
    {<<"queued", "processing">>, <<"processing", "ready">>,
     <<"processing", "failed">>, <<"processing", "cancelled">>,
     <<"failed", "queued">>, <<"ready", "queued">>}

\* C1: every change of a job's status, under any interleaving of creation,
\* process_job, CancelJob and RetryJob, is an edge of the status graph; a
\* cancelled job's status never changes again.
C1_StatusGraph ==
    [][\A j \in JobIds :
          (j \in DOMAIN jobs /\ j \in DOMAIN jobs'
           /\ jobs'[j].status # jobs[j].status)
          => <<jobs[j].status, jobs'[j].status>> \in JobStatusGraph]_vars

\* positions of process_job inside a Downloader, Transcriber, Highlight
\* Engine or Thumbnailer call
CollaboratorCalls == {"download", "transcribe", "highlights", "create_clips"}

\* C2: once a job is marked cancelled while its execution is in progress,
\* the execution's next move enters no collaborator call, creates no clip
\* and leaves the status cancelled.
C2_CancelStopsExecution ==
    [][\A w \in Workers :
          (/\ workers[w].kind = "job"
           /\ workers[w].pc # "start"
           /\ workers[w].id \in DOMAIN jobs
           /\ jobs[workers[w].id].status = "cancelled"
           /\ workers'[w] # workers[w])
          => /\ workers'[w].pc \notin CollaboratorCalls
             /\ clips' = clips
             /\ workers[w].id \in DOMAIN jobs'
             /\ jobs'[workers[w].id].status = "cancelled"]_vars

\* C3: RetryJob on a missing job or on a job whose status is neither failed
\* nor ready returns an error, changes no field of any job record and
\* submits nothing to the executor.
C3_RetryRejected ==
    [][\A j \in JobIds :
          (/\ HandleRetryJob(j) \/ RetryJobRoute(j)
           /\ \/ j \notin DOMAIN jobs
              \/ jobs[j].status \notin {"failed", "ready"})
          => /\ ~last'.ok
             /\ jobs' = jobs
             /\ queue' = queue
             /\ workers' = workers]_vars

\* C3 witness: a retry of a job that is being processed has been rejected
C3_Witness ==
    /\ last.op \in {"handle_retry_job", "retry_job"}
    /\ ~last.ok
    /\ last.detail = "processing"
    /\ last.id \in DOMAIN jobs
    /\ jobs[last.id].status = "processing"

\* C4: RetryJob on a failed or ready job succeeds, sets status queued,
\* clears the error, sets progress 0, appends exactly one execution of the
\* job to the executor's queue and touches neither the job's other fields,
\* nor other jobs, clips, renders or files.
C4_RetryResubmits ==
    [][\A j \in JobIds :
          (/\ HandleRetryJob(j) \/ RetryJobRoute(j)
           /\ j \in DOMAIN jobs
           /\ jobs[j].status \in {"failed", "ready"})
          => /\ last'.ok
             /\ DOMAIN jobs' = DOMAIN jobs
             /\ jobs'[j].status = "queued"
             /\ jobs'[j].error = ""
             /\ jobs'[j].progress = 0
             /\ \A f \in {"source_type", "source_url", "raw_path", "step"} :
                   jobs'[j][f] = jobs[j][f]
             /\ \A k \in DOMAIN jobs \ {j} : jobs'[k] = jobs[k]
             /\ queue' = Append(queue, Unit("job", j))
             /\ workers' = workers
             /\ clips' = clips
             /\ renders' = renders
             /\ files' = files]_vars

\* C4 witness: a failed job that had got as far as a raw file has been
\* retried: queued, no error, progress 0, one execution of it in the queue
C4_Witness ==
    /\ last.op = "handle_retry_job"
    /\ last.ok
    /\ last.id \in DOMAIN jobs
    /\ jobs[last.id].status = "queued"
    /\ jobs[last.id].error = ""
    /\ jobs[last.id].progress = 0
    /\ last.id \in rawFile
    /\ Len(SelectSeq(queue, LAMBDA u : u = Unit("job", last.id))) = 1

\* C5: a job record leaves the store only while its status is ready, failed
\* or cancelled; no operation removes a queued or processing job.
C5_DeleteOnlyFinished ==
    [][\A j \in JobIds :
          (j \in DOMAIN jobs /\ j \notin DOMAIN jobs')
          => jobs[j].status \in {"ready", "failed", "cancelled"}]_vars

C7_DeletionCascade ==
    [][\A j \in JobIds :
          (/\ DeleteJobRoute(j) \/ HandleDeleteJob(j)
           /\ last'.ok)
          => /\ j \notin DOMAIN jobs'
             /\ \A c \in DOMAIN clips' : clips'[c].job_id # j
             /\ \A r \in DOMAIN renders' : clipJob[renders'[r].clip_id] # j
             /\ \A k \in DOMAIN jobs \ {j} :
                   k \in DOMAIN jobs' /\ jobs'[k] = jobs[k]
             /\ \A c \in DOMAIN clips :
                   clips[c].job_id # j
                   => c \in DOMAIN clips' /\ clips'[c] = clips[c]
             /\ \A r \in DOMAIN renders :
                   clipJob[renders[r].clip_id] # j
                   => r \in DOMAIN renders' /\ renders'[r] = renders[r]]_vars

\* C8: in every reachable state the number of renders whose status is
\* queued or processing is at most MAX_CONCURRENT_RENDERS.
C8_RenderCap ==
    Cardinality(active_renders(renders)) <= MAX_CONCURRENT_RENDERS

\* a render submission: single or batch, through a handler or a route
RenderSubmission ==
    \/ \E clip_id \in ClipIds : HandleCreateRender(clip_id)
    \/ \E clip_id \in ClipIds : CreateRenderRoute(clip_id)
    \/ \E job_id \in JobIds, l \in ClipIdLists : HandleBatchRender(job_id, l)
    \/ \E job_id \in JobIds, l \in ClipIdLists : RenderSelectedRoute(job_id, l)

\* C9: a render submission made while MAX_CONCURRENT_RENDERS renders are
\* queued or processing is rejected with an error, creates and changes no
\* render record and submits nothing to the executor.
C9_AtCapRejected ==
    [][(/\ Cardinality(active_renders(renders)) = MAX_CONCURRENT_RENDERS
        /\ RenderSubmission)
       => /\ ~last'.ok
          /\ renders' = renders
          /\ queue' = queue]_vars

\* C10: in every reachable state every clip has at most one render whose
\* status is queued or processing.
C10_OneActiveRenderPerClip ==
    \A clip_id \in ClipIds :
       Cardinality({r \in active_renders(renders) :
                       renders[r].clip_id = clip_id}) <= 1

\* the raw video, the transcript file and at least one clip of the job exist
ArtifactsExist(job_id) ==
    /\ job_id \in DOMAIN jobs
    /\ job_id \in rawFile
    /\ transcript[job_id] # "none"
    /\ get_clips_by_job(clips, job_id) # {}

\* positions of process_job between two collaborator calls
DecisionPoints == {"start", "acquired", "transcribed", "finish"}

\* C11: an execution of process_job that finds the raw video, the
\* transcript and a clip of its job in place moves from decision point to
\* decision point without entering a collaborator call, creates and deletes
\* no clip, never writes failed and ends by writing status ready.
C11_IdempotentResume ==
    [][\A w \in Workers :
          (/\ workers[w].kind = "job"
           /\ workers[w].pc \in DecisionPoints
           /\ ArtifactsExist(workers[w].id)
           /\ workers'[w] # workers[w])
          => /\ clips' = clips
             /\ files' = files
             /\ workers[w].id \in DOMAIN jobs'
             /\ IF workers[w].pc = "finish"
                THEN /\ workers'[w] = Idle
                     /\ jobs'[workers[w].id].status = "ready"
                ELSE /\ workers'[w].kind = "job"
                     /\ workers'[w].id = workers[w].id
                     /\ workers'[w].pc \in DecisionPoints
                     /\ jobs'[workers[w].id].status \in
                           {"processing", jobs[workers[w].id].status}]_vars

\* C11 witness: a ready job with all artifacts was retried and its new
\* execution has ended, the job being ready again
C11_Witness ==
    /\ last.op = "handle_retry_job"
    /\ last.ok
    /\ ArtifactsExist(last.id)
    /\ jobs[last.id].status = "ready"
    /\ jobs[last.id].progress = 100
    /\ queue = <<>>
    /\ \A w \in Workers : workers[w] = Idle

\* the step of worker w in which a step of process_job fails: the
\* Downloader or the Transcriber reports failure, the uploaded file or the
\* transcript data is missing, the Highlight Engine returns nothing or raises
StepFails(w) ==
    \/ /\ PJ_Begin(w)
       /\ workers[w].id \in DOMAIN jobs
       /\ jobs[workers[w].id].source_type = "upload"
       /\ jobs[workers[w].id].raw_path = "" \/ workers[w].id \notin rawFile
    \/ PJ_DownloadReturn(w, FALSE)
    \/ PJ_TranscribeReturn(w, "fail")
    \/ /\ PJ_Transcribed(w)
       /\ get_clips_by_job(clips, workers[w].id) = {}
       /\ transcript[workers[w].id] # "ok"
    \/ PJ_HighlightsReturn(w, 0)
    \/ PJ_HighlightsRaise(w)

C13_ErrorIffFailed ==
    \A j \in DOMAIN jobs : (jobs[j].error # "") <=> (jobs[j].status = "failed")

\* C14: any two highlights A, B returned by remove_overlaps with A starting
\* before B satisfy B.start >= A.end + min_gap.
C14_MinGapKept ==
    engine.op = "overlaps_removed"
    => \A i, j \in 1..Len(engine.result) :
          engine.result[i].start < engine.result[j].start
          => engine.result[j].start >= engine.result[i].end + engine.min_gap

\* C15: remove_overlaps returns at most top_n highlights (top_n = 0
\* included), sorted ascending by start.
C15_AtMostTopN ==
    engine.op = "overlaps_removed"
    => /\ Len(engine.result) <= engine.top_n
       /\ \A i, j \in 1..Len(engine.result) :
             i < j => engine.result[i].start <= engine.result[j].start

\* the selection section 4.6 describes: visit in the given order, stop once
\* n candidates are accepted, accept a candidate unless it conflicts with
\* an accepted one
RECURSIVE GreedySelection(_, _, _, _)
GreedySelection(ordered, accepted, n, gap) ==
    IF ordered = <<>> \/ Len(accepted) >= n THEN accepted
    ELSE LET c == Head(ordered)
             conflict == \E i \in 1..Len(accepted) :
                            /\ c.end > accepted[i].start - gap
                            /\ c.start < accepted[i].end
         IN GreedySelection(Tail(ordered),
                            IF conflict THEN accepted ELSE Append(accepted, c),
                            n, gap)

\* candidates in descending score order, equal scores in original order
IsScoreOrder(ordered, candidates) ==
    /\ Len(ordered) = Len(candidates)
    /\ \E p \in [1..Len(candidates) -> 1..Len(candidates)] :
          /\ \A i, j \in 1..Len(candidates) : i # j => p[i] # p[j]
          /\ \A i \in 1..Len(candidates) : ordered[i] = candidates[p[i]]
          /\ \A i, j \in 1..Len(candidates) :
                i < j => \/ candidates[p[i]].score > candidates[p[j]].score
                         \/ /\ candidates[p[i]].score = candidates[p[j]].score
                            /\ p[i] < p[j]

\* C17: the result of remove_overlaps holds exactly the candidates of the
\* greedy score-first selection (descending score, ties in original order,
\* conflict test with min_gap, stop at top_n accepted), so of two
\* conflicting candidates only the higher-scored one is returned.
C17_GreedySelection ==
    engine.op = "overlaps_removed"
    => \E ordered \in [1..Len(engine.candidates) -> Candidates] :
          /\ IsScoreOrder(ordered, engine.candidates)
          /\ engine.result =
                sort_by_start(GreedySelection(ordered, <<>>, engine.top_n,
                                              engine.min_gap))

\* C16: every candidate generate_candidates emits has a duration end - start
\* between MIN_CLIP_DURATION and MAX_CLIP_DURATION, for every ordered
\* segment list.
C16_CandidateDurations ==
    engine.op = "candidates_generated"
    => \A k \in 1..Len(engine.result) :
          /\ MIN_CLIP_DURATION <= engine.result[k].end - engine.result[k].start
          /\ engine.result[k].end - engine.result[k].start <= MAX_CLIP_DURATION

\* C16 witness: candidates were emitted, one of them of exactly
\* MAX_CLIP_DURATION, from segments that also hold a window that is too
\* short and a window that is too long
C16_Witness ==
    /\ engine.op = "candidates_generated"
    /\ \E k \in 1..Len(engine.result) :
          engine.result[k].duration = MAX_CLIP_DURATION
    /\ \E i, j \in 1..Len(engine.segments) :
          i <= j /\ engine.segments[j].end - engine.segments[i].start
                       > MAX_CLIP_DURATION
    /\ \E i \in 1..Len(engine.segments) :
          engine.segments[i].end - engine.segments[i].start < MIN_CLIP_DURATION

\* units of work the pool can hold
PoolUnits ==
    {[kind |-> "job", id |-> j] : j \in JobIds}
        \cup {[kind |-> "render", id |-> r] : r \in RenderIds}

Queued(u) == \E k \in 1..Len(queue) : queue[k] = u

\* a worker thread has just invoked the orchestrator for u
Started(u) ==
    \E w \in Workers :
        workers[w] = [kind |-> u.kind, id |-> u.id, pc |-> "start", n |-> 0]

\* the threads that take up an execution in this step
Starting == {w \in Workers : workers[w] = Idle /\ workers'[w] # Idle}

\* ids handed to SubmitJob / SubmitRender in this step: a job reset to
\* 'queued', a render row created
SubmittedNow ==
    {[kind |-> "job", id |-> j] : j \in
        {j \in DOMAIN jobs \cap DOMAIN jobs' :
            jobs[j].status # "queued" /\ jobs'[j].status = "queued"}}
    \cup {[kind |-> "render", id |-> r] : r \in DOMAIN renders' \ DOMAIN renders}

\* every step either leaves the pool's units alone, or appends the one
\* submitted unit to the queue, or hands the head of the queue to exactly
\* one idle thread; a running thread keeps its unit until it is done
UnitsConserved ==
    /\ \A w \in Workers :
          workers[w] # Idle =>
             \/ workers'[w] = Idle
             \/ /\ workers'[w].kind = workers[w].kind
                /\ workers'[w].id = workers[w].id
    /\ IF SubmittedNow # {}
       THEN /\ Starting = {}
            /\ \E u \in SubmittedNow :
                  SubmittedNow = {u} /\ queue' = Append(queue, u)
       ELSE \/ queue' = queue /\ Starting = {}
            \/ /\ queue # <<>>
               /\ queue' = Tail(queue)
               /\ \E w \in Workers :
                     /\ Starting = {w}
                     /\ workers'[w] = [kind |-> Head(queue).kind,
                                       id |-> Head(queue).id,
                                       pc |-> "start", n |-> 0]

\* C18: each SubmitJob / SubmitRender call puts exactly one unit in the
\* queue, also when every worker is busy; a unit leaves the queue only by
\* being started on one thread, once; and with fair scheduling and
\* terminating executions every queued unit is eventually started.
C18_ExactlyOnce ==
    /\ [][UnitsConserved]_vars
    /\ \A u \in PoolUnits : Queued(u) ~> Started(u)

\* C18 witness: a job was submitted while one worker ran a job and the
\* other had just started the new render; it waits in the queue
C18_Witness ==
    /\ Started([kind |-> "render", id |-> 3])
    /\ \E w \in Workers : workers[w].kind = "job"
    /\ Len(queue) = 1
    /\ queue[1].kind = "job"
    /\ last = Result("retry_job", queue[1].id, TRUE)

\* the executions in progress: one per busy worker thread
Executing == {w \in Workers : workers[w] # Idle}

\* C19: never more than MAX_WORKERS orchestrator executions are running,
\* job and render executions counted together; while all of them are busy
\* no unit leaves the queue, a submitted unit is appended behind the ones
\* already waiting.
C19_AtMostNRunning ==
    [][/\ Cardinality({w \in Workers : workers'[w] # Idle}) <= MAX_WORKERS
       /\ Cardinality(Executing) >= MAX_WORKERS =>
             /\ Len(queue') >= Len(queue)
             /\ SubSeq(queue', 1, Len(queue)) = queue
             /\ \A u \in SubmittedNow : queue'[Len(queue')] = u]_vars

\* C19 witness: a job execution and a render execution occupy the two
\* workers while two more units wait
C19_Witness ==
    /\ {workers[w].kind : w \in Workers} = {"job", "render"}
    /\ Len(queue) = 2
    /\ last.ok

\* the unit a worker thread executes
UnitOf(x) == [kind |-> x.kind, id |-> x.id]

\* C20: units that wait are started in submission order: the unit a thread
\* starts is the one that has waited longest, the units that keep waiting
\* keep their order, and a newly submitted unit goes behind all of them.
C20_Fifo ==
    [][/\ \A w \in Workers :
             (workers[w] = Idle /\ workers'[w] # Idle) =>
                /\ queue # <<>>
                /\ UnitOf(workers'[w]) = queue[1]
                /\ \A k \in 1..Len(queue') : queue'[k] = queue[k + 1]
       /\ \A i, j \in 1..Len(queue) :
             (i < j /\ \E k \in 1..Len(queue') : queue'[k] = queue[j]) =>
                \/ \E k, l \in 1..Len(queue') :
                      k < l /\ queue'[k] = queue[i] /\ queue'[l] = queue[j]
                \/ \E w \in Workers : UnitOf(workers'[w]) = queue[i]]_vars

\* C20 witness: render 1 and render 2 were queued in this order; a thread
\* has just started render 1 while render 2 still waits behind a busy pool
C20_Witness ==
    /\ \E w \in Workers :
          workers[w] = [kind |-> "render", id |-> 1, pc |-> "start", n |-> 0]
    /\ \A w \in Workers : workers[w] # Idle
    /\ Len(queue) = 2
    /\ queue[1] = [kind |-> "render", id |-> 2]

\* the places of one process_job execution, in the order of the code, and
\* "done" for its return
StepOrder ==
    {<<"start", "download">>, <<"start", "acquired">>, <<"start", "done">>,
     <<"download", "download">>, <<"download", "acquired">>,
     <<"download", "done">>,
     <<"acquired", "transcribe">>, <<"acquired", "transcribed">>,
     <<"transcribe", "transcribed">>, <<"transcribe", "done">>,
     <<"transcribed", "highlights">>, <<"transcribed", "finish">>,
     <<"transcribed", "done">>,
     <<"highlights", "create_clips">>, <<"highlights", "done">>,
     <<"create_clips", "create_clips">>, <<"create_clips", "finish">>,
     <<"finish", "done">>}

\* where the execution on thread w stands after the step
PlaceAfter(w) == IF workers'[w] = Idle THEN "done" ELSE workers'[w].pc

\* C21: one process_job execution runs acquire, transcribe,
\* generate_highlights with clip creation, completion in this order: the
\* Transcriber is invoked only after acquire succeeded or was skipped (the
\* raw video is there), the Highlight Engine only with a transcript that
\* exists, and status=ready is written only at the end of the execution.
C21_StepOrder ==
    [][/\ \A w \in Workers :
             (workers[w].kind = "job" /\ workers'[w] # workers[w]) =>
                /\ <<workers[w].pc, PlaceAfter(w)>> \in StepOrder
                /\ (PlaceAfter(w) = "acquired") => workers[w].id \in rawFile'
                /\ (PlaceAfter(w) = "highlights") =>
                      transcript[workers[w].id] = "ok"
       /\ \A j \in DOMAIN jobs \cap DOMAIN jobs' :
             (jobs[j].status # "ready" /\ jobs'[j].status = "ready") =>
                \E w \in Workers :
                   /\ workers[w].kind = "job" /\ workers[w].id = j
                   /\ workers[w].pc = "finish"
                   /\ j \in rawFile /\ transcript[j] # "none"
                   /\ get_clips_by_job(clips, j) # {}]_vars

\* C21 witness: the execution of the failed youtube job has downloaded,
\* transcribed, created its clip and is about to write status=ready
C21_Witness ==
    /\ \E w \in Workers : workers[w] = [kind |-> "job", id |-> 2,
                                        pc |-> "finish", n |-> 0]
    /\ 2 \in rawFile
    /\ transcript[2] = "ok"
    /\ get_clips_by_job(clips, 2) # {}

\* C22: an execution that is past generate_highlights makes a cleanup step
\* that deletes the job's raw video before the job completes: status=ready
\* is written by an execution that stands behind its cleanup step, and the
\* raw video is gone unless the deletion failed; a failed deletion never
\* gives status=failed. (No statement of process_job deletes the raw
\* video, so no execution ever stands at a cleanup step.)
C22_CleanupBeforeReady ==
    [][\A j \in DOMAIN jobs \cap DOMAIN jobs' :
          (jobs[j].status # "ready" /\ jobs'[j].status = "ready") =>
             \E w \in Workers :
                /\ workers[w].kind = "job" /\ workers[w].id = j
                /\ workers[w].pc = "cleanup"]_vars

\* error messages of the precondition checks made inside process_render
PreconditionErrors ==
    {"clip_not_found", "job_video_not_found", "raw_file_not_found"}

\* C23: a render is created only by a submission whose preconditions all
\* hold (the clip and its job exist, the job's raw video is present, the
\* cap is not reached, no other render of the clip is queued or
\* processing), and no render that was created is later failed because of
\* one of these preconditions.
C23_RejectedAtSubmission ==
    [][/\ \A r \in DOMAIN renders' \ DOMAIN renders :
             /\ renders'[r].clip_id \in DOMAIN clips
             /\ clips[renders'[r].clip_id].job_id \in DOMAIN jobs
             /\ clips[renders'[r].clip_id].job_id \in rawFile
             /\ ~LimitReached(renders)
             /\ ~ClipBusy(renders, renders'[r].clip_id)
       /\ \A r \in DOMAIN renders \cap DOMAIN renders' :
             (renders[r].status # "failed" /\ renders'[r].status = "failed")
                => renders'[r].error \notin PreconditionErrors]_vars

\* C24: a process_render execution on a render that exists ends with the
\* render in status ready with its output path set, or in status failed
\* with an error message; and a render in status ready always has its
\* output path set.
C24_RenderOutcome ==
    [][/\ \A w \in Workers :
             (/\ workers[w].kind = "render"
              /\ workers'[w] = Idle
              /\ workers[w].id \in DOMAIN renders') =>
                \/ /\ renders'[workers[w].id].status = "ready"
                   /\ renders'[workers[w].id].output_path # ""
                \/ /\ renders'[workers[w].id].status = "failed"
                   /\ renders'[workers[w].id].error # ""
       /\ \A r \in DOMAIN renders' :
             renders'[r].status = "ready" => renders'[r].output_path # ""]_vars

\* C24 witness: one execution has ended in ready with its output written,
\* another one in failed with the Renderer's error
C24_Witness ==
    /\ \E r \in DOMAIN renders :
          /\ renders[r].status = "ready"
          /\ renders[r].output_path = "out"
          /\ r \in outFile
    /\ \E r \in DOMAIN renders :
          /\ renders[r].status = "failed"
          /\ renders[r].error = "render_failed"
    /\ \A w \in Workers : workers[w] = Idle

\* the status changes of a render: the job's graph, and queued -> ready
\* for the two writes processing, ready that process_render makes back to
\* back when the output file is already there
RenderStatusGraph ==
    {<<"queued", "processing">>, <<"processing", "ready">>,
     <<"processing", "failed">>, <<"processing", "cancelled">>,
     <<"failed", "queued">>, <<"ready", "queued">>, <<"queued", "ready">>}

\* C25: every change of a render's status, under any interleaving of
\* submission, retry, execution and reads, is an edge of the status graph
\* of a job; in particular no render goes from queued to failed or from
\* ready to failed.
C25_RenderStatusGraph ==
    [][\A r \in RenderIds :
          (r \in DOMAIN renders /\ r \in DOMAIN renders'
           /\ renders'[r].status # renders[r].status)
          => <<renders[r].status, renders'[r].status>> \in RenderStatusGraph]_vars

\* executions of job j that have written status=processing and not yet
\* made their final status write
ActiveExecutions(j) ==
    {w \in Workers : /\ workers[w].kind = "job"
                     /\ workers[w].id = j
                     /\ workers[w].pc # "start"}

\* C26: for every job id at most one process_job execution is between its
\* write of status=processing and its final status write, so no job row is
\* written by two executions at a time.
C26_OneExecutionPerJob ==
    \A j \in JobIds : Cardinality(ActiveExecutions(j)) <= 1

\* C27: the clip count calculate_dynamic_clip_count returns, with the base
\* count of the configuration, never exceeds 50 and is monotone in the
\* duration: no shorter video gets a larger count.
C27_ClipCountMonotone ==
    engine.op = "clip_count_returned" =>
       /\ engine.result <= 50
       /\ \A d \in VideoDurations :
             d <= engine.total_duration =>
                calculate_dynamic_clip_count(d, engine.base_count)
                   <= engine.result

\* C28: every clip in the store has start_sec < end_sec and a duration
\* end_sec - start_sec between MIN_CLIP_DURATION and MAX_CLIP_DURATION,
\* whichever operation created it.
C28_ClipRange ==
    \A c \in DOMAIN clips :
       /\ clips[c].start_sec < clips[c].end_sec
       /\ MIN_CLIP_DURATION <= clips[c].end_sec - clips[c].start_sec
       /\ clips[c].end_sec - clips[c].start_sec <= MAX_CLIP_DURATION

\* C29: the limit check and the creation of the render in handle_create_render
\* are atomic: when all renders belong to different clips, a render is created
\* only in a state whose count of active renders is below the limit, so with
\* one free slot two concurrent submissions for different clips never both
\* create a render.
C29_AtomicCapCheck ==
    [][(/\ nextRender' > nextRender
        /\ \A r1, r2 \in DOMAIN renders' :
              r1 # r2 => renders'[r1].clip_id # renders'[r2].clip_id)
          => Cardinality({r \in DOMAIN renders :
                             renders[r].status \in {"queued", "processing"}})
                 < MAX_CONCURRENT_RENDERS]_vars

\* C30: when the job of an execution has at least one clip at the
\* generate_highlights step, the step goes straight to completion without
\* invoking the Highlight Engine or creating a clip, the completion step
\* writes status=ready, and both leave the clips of the job as they are.
C30_ResumeKeepsClips ==
    [][\A w \in Workers :
          (/\ workers[w].kind = "job"
           /\ workers'[w] # workers[w]
           /\ get_clips_by_job(clips, workers[w].id) # {}
           /\ workers[w].pc \in {"transcribed", "finish"}) =>
              /\ get_clips_by_job(clips', workers[w].id)
                    = get_clips_by_job(clips, workers[w].id)
              /\ \A c \in get_clips_by_job(clips, workers[w].id) :
                    clips'[c] = clips[c]
              /\ nextClip' = nextClip
              /\ (workers[w].pc = "transcribed") =>
                    /\ workers'[w].kind = "job"
                    /\ workers'[w].pc = "finish"
                    /\ jobs'[workers[w].id].status = "processing"
              /\ (workers[w].pc = "finish") =>
                    jobs'[workers[w].id].status = "ready"]_vars

\* C30 witness: the finished job with its one clip was retried, its
\* execution is over, the job is ready again and still has exactly that clip
C30_Witness ==
    /\ last = Result("retry_job", 1, TRUE)
    /\ jobs[1].status = "ready"
    /\ \A w \in Workers : workers[w] = Idle
    /\ queue = <<>>
    /\ get_clips_by_job(clips, 1) = {1}
    /\ nextClip = 2

\* C31: an execution whose job has no clip and whose transcript has no
\* segments, or for which the Highlight Engine returns no highlight, ends
\* with status=failed and creates no clip; and status=ready is written by an
\* execution only for a job that has at least one clip.
C31_NoHighlightsFails ==
    [][/\ \A w \in Workers :
             (/\ workers[w].kind = "job"
              /\ workers'[w] # workers[w]
              /\ \/ workers[w].pc = "highlights" /\ workers'[w].kind # "job"
                 \/ /\ workers[w].pc = "transcribed"
                    /\ transcript[workers[w].id] # "ok"
                    /\ \A c \in DOMAIN clips : clips[c].job_id # workers[w].id)
                =>
                /\ workers'[w].kind # "job"
                /\ jobs'[workers[w].id].status = "failed"
                /\ jobs'[workers[w].id].error # ""
                /\ clips' = clips
       /\ \A j \in DOMAIN jobs \cap DOMAIN jobs' :
             (jobs[j].status # "ready" /\ jobs'[j].status = "ready") =>
                \E c \in DOMAIN clips' : clips'[c].job_id = j]_vars

\* C31 witness: the retried job 2 failed because no highlight was generated,
\* its execution is over and it has no clip
C31_Witness ==
    /\ jobs[2].status = "failed"
    /\ jobs[2].error = "no_highlights"
    /\ \A w \in Workers : workers[w] = Idle
    /\ \A c \in DOMAIN clips : clips[c].job_id # 2

\* C32: CancelJob succeeds only on a job whose status is queued or
\* processing and then writes status=cancelled, changing nothing else than
\* the status, the step and the error of that job; on a job that is ready,
\* failed or cancelled, or on a missing job, it returns an error and leaves
\* the store unchanged.
C32_CancelOnlyActive ==
    [][/\ \A j \in DOMAIN jobs \cap DOMAIN jobs' :
             (jobs[j].status # "cancelled" /\ jobs'[j].status = "cancelled") =>
                /\ jobs[j].status \in {"queued", "processing"}
                /\ last'.op = "cancel_job" /\ last'.id = j /\ last'.ok
                /\ jobs' = [jobs EXCEPT ![j].status = "cancelled",
                                        ![j].step = jobs'[j].step,
                                        ![j].error = jobs'[j].error]
                /\ clips' = clips /\ renders' = renders
       /\ (last' # last /\ last'.op = "cancel_job") =>
             IF last'.id \in DOMAIN jobs
                /\ jobs[last'.id].status \in {"queued", "processing"}
             THEN /\ last'.ok
                  /\ jobs'[last'.id].status = "cancelled"
             ELSE /\ ~last'.ok
                  /\ jobs' = jobs /\ clips' = clips /\ renders' = renders
                  /\ queue' = queue]_vars

\* C32 witness: a processing job was cancelled while its execution runs
C32_Witness ==
    /\ last.op = "cancel_job" /\ last.ok
    /\ jobs[last.id].status = "cancelled"
    /\ jobs[last.id].error = "cancelled_by_user"
    /\ \E w \in Workers : workers[w].kind = "job" /\ workers[w].id = last.id

\* C33: render retry succeeds only on a render whose status is failed, and
\* then writes status=queued, no error, progress 0 and submits that render
\* once; on a render in another status or a missing render it returns an
\* error, changes no render and submits nothing.
C33_RetryOnlyFailed ==
    [][/\ \A r \in DOMAIN renders :
             (/\ Len(queue') = Len(queue) + 1
              /\ queue'[Len(queue')] = [kind |-> "render", id |-> r]) =>
                /\ renders[r].status = "failed"
                /\ renders'[r].status = "queued"
                /\ renders'[r].error = ""
                /\ renders'[r].progress = 0
                /\ queue' = Append(queue, [kind |-> "render", id |-> r])
                /\ last'.op \in {"handle_retry_render", "retry_render"}
                /\ last'.id = r /\ last'.ok
       /\ (/\ last' # last
           /\ last'.op \in {"handle_retry_render", "retry_render"}
           /\ ~last'.ok) =>
             renders' = renders /\ queue' = queue]_vars

\* C34: when a render execution starts its render step (render, clip, job
\* and raw video are there) and the output file of the render already
\* exists, it writes status=ready, progress 100 and the output reference,
\* and ends without invoking the Renderer and without touching the file.
C34_ExistingOutputReady ==
    [][\A w \in Workers :
          (/\ workers[w].kind = "render" /\ workers[w].pc = "start"
           /\ workers'[w] # workers[w]
           /\ workers[w].id \in DOMAIN renders
           /\ workers[w].id \in outFile
           /\ renders[workers[w].id].clip_id \in DOMAIN clips
           /\ clips[renders[workers[w].id].clip_id].job_id \in DOMAIN jobs
           /\ jobs[clips[renders[workers[w].id].clip_id].job_id].raw_path # ""
           /\ clips[renders[workers[w].id].clip_id].job_id \in rawFile) =>
              /\ renders'[workers[w].id].status = "ready"
              /\ renders'[workers[w].id].progress = 100
              /\ renders'[workers[w].id].output_path = "out"
              /\ workers'[w].kind = "idle"
              /\ outFile' = outFile]_vars

\* C34 witness: an execution is at the start of a queued render whose output
\* file is on disk
C34_Witness ==
    \E w \in Workers :
       /\ workers[w].kind = "render" /\ workers[w].pc = "start"
       /\ workers[w].id \in DOMAIN renders
       /\ workers[w].id \in outFile
       /\ renders[workers[w].id].status = "queued"
       /\ clips[renders[workers[w].id].clip_id].job_id \in rawFile

\* windows (i, j) over 0-based segment indexes, j exclusive, as the claim
\* lists them: i a multiple of S, 1 <= j - i <= 149, duration within limits
ClaimedWindows(segments, S) ==
    {w \in (0..(Len(segments) - 1)) \X (1..Len(segments)) :
        /\ w[1] % S = 0
        /\ 1 <= w[2] - w[1] /\ w[2] - w[1] <= 149
        /\ 15 <= segments[w[2]].end - segments[w[1] + 1].start
        /\ segments[w[2]].end - segments[w[1] + 1].start <= 60}

\* ... of which those that no shorter window from the same i exceeds 60 s
ReachedWindows(segments, S) ==
    {w \in ClaimedWindows(segments, S) :
        \A j \in (w[1] + 1)..(w[2] - 1) :
           segments[j].end - segments[w[1] + 1].start <= 60}

\* start = segment[i].start, end = segment[j-1].end
WindowCandidate(segments, w) ==
    [start |-> segments[w[1] + 1].start, end |-> segments[w[2]].end,
     duration |-> segments[w[2]].end - segments[w[1] + 1].start,
     segment_count |-> w[2] - w[1]]

\* the list holds one candidate for each window and nothing else
CandidatesOf(result, segments, W) ==
    /\ Len(result) = Cardinality(W)
    /\ \A c \in {WindowCandidate(segments, w) : w \in W} :
          Cardinality({k \in 1..Len(result) : result[k] = c})
             = Cardinality({w \in W : WindowCandidate(segments, w) = c})

StepOf(e) == IF e.total_duration > 3600 /\ e.adaptive_step THEN 3 ELSE 1

C36_ReadsLeaveStatus ==
    [][\A r \in DOMAIN renders \cap DOMAIN renders' :
          (\/ renders'[r].status # renders[r].status
           \/ renders'[r].error # renders[r].error) =>
             \/ \E w \in Workers :
                   /\ workers[w].kind = "render" /\ workers[w].id = r
                   /\ workers'[w] # workers[w]
             \/ /\ last'.op \in {"handle_retry_render", "retry_render"}
                /\ last'.id = r /\ last'.ok]_vars

\* C37: under fair scheduling of the pool and with every collaborator call
\* returning, every job that is queued or processing eventually has a status
\* in {ready, failed, cancelled}, whatever cancel and retry requests are
\* interleaved.
C37_JobsTerminate ==
    \A j \in JobIds :
       (j \in DOMAIN jobs /\ jobs[j].status \in {"queued", "processing"})
          ~> (j \in DOMAIN jobs
                 /\ jobs[j].status \in {"ready", "failed", "cancelled"})

\* C37 witness: a job that was cancelled while it was executed, and then
\* taken back to processing by its execution, has ended ready with its
\* execution over
C37_Witness ==
    /\ 1 \in DOMAIN jobs
    /\ jobs[1].status = "ready"
    /\ jobs[1].error = "cancelled_by_user"
    /\ \A w \in Workers : workers[w].kind = "job" => workers[w].id # 1
    /\ \A k \in 1..Len(queue) : queue[k].id # 1

\* C38: when RegenerateHighlights returns an error (job missing or not
\* ready, transcript missing or invalid, no highlight generated, video file
\* missing), the clips of the job are exactly what they were before the call.
C38_FailedRegenerateKeepsClips ==
    [][(/\ last' # last
        /\ last'.op = "regenerate_highlights"
        /\ ~last'.ok) =>
          /\ {c \in DOMAIN clips' : clips'[c].job_id = last'.id}
                = {c \in DOMAIN clips : clips[c].job_id = last'.id}
          /\ \A c \in DOMAIN clips :
                clips[c].job_id = last'.id => clips'[c] = clips[c]]_vars

\* C39: referential integrity: in every reachable state the job_id of every
\* clip names a job in the store and the clip_id of every render names a clip
\* in the store.
C39_ReferentialIntegrity ==
    /\ \A c \in DOMAIN clips : clips[c].job_id \in DOMAIN jobs
    /\ \A r \in DOMAIN renders : renders[r].clip_id \in DOMAIN clips

====
